---- MODULE Spec2Model ----
(***************************************************************************)
(* Model of the analysis-orchestration and session-state core of the       *)
(* AI Code Quality Assistant:                                              *)
(*   - QualityAnalysisState, the Durable Object that keeps the per-session *)
(*     analysis history (the session store);                               *)
(*   - AnalysisWorkflow, the five-step analysis workflow with its parallel *)
(*     per-aspect tasks (the dispatcher);                                  *)
(*   - CodeQualityAgent.performCodeAnalysis, the agent path that writes    *)
(*     the analysis through to the session store.                          *)
(* JavaScript runs one callback at a time: an async method is modelled as  *)
(* one action per synchronous stretch, split at its await points.          *)
(***************************************************************************)
EXTENDS Integers, Sequences, FiniteSets, TLC

VARIABLES
    \* ---- session store (QualityAnalysisState) ----
    sessions,    \* this.sessions: session id -> reference of the session object
    heap,        \* the session objects, by reference
    storage,     \* the durable snapshot written by ctx.storage.put("sessions", ...)
    now,         \* Date.now()
    pc,          \* per caller: position of its call in the store
    op,          \* per caller: the call it is running (name and arguments;
                 \* for saveAnalysis also the session it found, as history)
    loc,         \* per caller: the local variable `session` (a reference)
    pending,     \* per caller: outcome of the storage.put it awaits
    ret,         \* per caller: what the finished call returned or threw
    issued,      \* number of calls issued to the store so far
    putFailures, \* number of storage.put calls that have failed so far
    puts,        \* per caller: storage.put calls its current call has issued
    \* ---- history variables of the store (not program state) ----
    pushed,      \* per session id: whether its history came with the loaded
                 \* snapshot, and the results pushed to it since, in order
    okCount,     \* per session id: number of saveAnalysis calls that returned
    failedSave,  \* per session id: a saveAnalysis call on it has failed at a
                 \* storage write
    cleaned,     \* per session id: cleanup has removed it
    startTotal,  \* per caller: stats totalAnalyses of its session when it began
    overlapped,  \* per caller: the callers whose call was in flight when it began
    activation,  \* how the constructor's load of the snapshot ended
    \* ---- analysis workflow (AnalysisWorkflow.run) ----
    wfPc,        \* the step the run is at
    wfInput,     \* the AnalysisWorkflowInput: code and analysisTypes
    tasks,       \* the promises pushed to `tasks`, in launch order
    wfResults,   \* `results` of performParallelAnalysis: aspect -> entry
    wfSummary,   \* the summary generateSummary returned
    wfOutcome,   \* how run ended: "returned", "thrown" or "error_state_threw"
    wfFailed,    \* the step whose failure sent run to its catch block
    wfSteps,     \* history: the steps started so far, in order
    \* ---- chat agent (performCodeAnalysis of the two agents) ----
    agPc,        \* position of the request in performCodeAnalysis
    agKind,      \* "simple" (SimpleCodeAgent) or "quality" (CodeQualityAgent)
    agCalls,     \* the three analyzeWithWorkersAI promises, by aspect
    agSave,      \* what happened in saveAnalysisResult
    agOut,       \* what was written to the data stream
    agLines,     \* number of writeText calls made on the data stream
    \* ---- worker (fetch of index.ts) and content classifier ----
    rtPc,        \* position of the request in fetch
    rtReq,       \* the request
    rtRoute,     \* "analysis" (performCodeAnalysis) or "chat" (performGeneralChat)
    rtModel,     \* what became of the model call
    rtCalls,     \* number of env.AI.run calls issued for the request
    rtResp,      \* the Response returned
    cls          \* the last classification: implementation, text and verdict

storeVars == <<sessions, heap, storage, now, pc, op, loc, pending, ret,
               issued, putFailures, puts, pushed, okCount, failedSave,
               cleaned, startTotal, overlapped, activation>>

wfVars == <<wfPc, wfInput, tasks, wfResults, wfSummary, wfOutcome, wfFailed,
            wfSteps>>

agVars == <<agPc, agKind, agCalls, agSave, agOut, agLines>>

rtVars == <<rtPc, rtReq, rtRoute, rtModel, rtCalls, rtResp, cls>>

vars == <<storeVars, wfVars, agVars, rtVars>>

----------------------------------------------------------------------------
(* Bounds of the model *)

MaxCalls == 2        \* calls issued to the store in one behaviour
MaxPutFailures == 1  \* storage.put calls that fail in one behaviour
MaxTime == 1         \* last value of the clock
MaxRefs == 3         \* session objects allocated in one behaviour
PreloadLen == 50     \* results saved earlier to the session of the snapshot
MaxTextLen == 3      \* tokens of a message text

(* Program constants *)

HistoryCap == 50
DefaultScore == 50
MinLimit == 1
MaxLimit == 100
DefaultLimit == 10

SessionIds == {"s1", "s2"}

\* getSessionId of CodeQualityAgent: the one session its results go to
AgentSessionId == "default-session"
AllSessionIds == SessionIds \cup {AgentSessionId}
Callers == {"c1", "c2"}
NoRef == 0

\* The overallScore of a result: a number, NaN (typeof NaN === 'number';
\* a direct call can pass it, a JSON body cannot) or a missing or
\* non-numeric value (typeof overallScore !== 'number')
NumberScore(n) == [kind |-> "number", value |-> n]
NaNScore == [kind |-> "NaN", value |-> 0]
NoScore == [kind |-> "undefined", value |-> 0]

\* overallScore values saveAnalysis may receive
ScoreInputs ==
    {NumberScore(-1), NumberScore(0), NumberScore(75), NumberScore(100),
     NumberScore(150), NaNScore, NoScore}

\* The session id that receives every input; the other one receives the
\* typical request only
FullInputIds == {"s1"}
TypicalScore == 75
AgeInputs == {0, 1}

----------------------------------------------------------------------------
(* Pure helpers *)

RECURSIVE SumSeq(_)
SumSeq(s) == IF s = <<>> THEN 0 ELSE Head(s) + SumSeq(Tail(s))

\* Math.round(num / den) for num >= 0, den > 0: halves round up
MathRound(num, den) == (2 * num + den) \div (2 * den)

\* slice(0, n) written for slice(-n): the first n entries
SliceFirst(s, n) == IF Len(s) <= n THEN s ELSE SubSeq(s, 1, n)

\* Array.prototype.slice(-n) for n >= 1
SliceLast(s, n) == IF Len(s) <= n THEN s ELSE SubSeq(s, Len(s) - n + 1, Len(s))

Min2(a, b) == IF a <= b THEN a ELSE b
Max2(a, b) == IF a >= b THEN a ELSE b

----------------------------------------------------------------------------
(* Session store: QualityAnalysisState *)

NoUser == "undefined"

\* The finding lists a request body carries (their severities): two security
\* findings with a typical score and one otherwise, a performance finding
\* with every other request, no quality finding with a score of 0
SecurityIssues(score) ==
    IF score = NumberScore(TypicalScore) THEN <<"high", "low">>
    ELSE <<"medium">>
PerformanceIssues(summary) == IF summary % 2 = 1 THEN <<"medium">> ELSE <<>>
QualityIssues(score) == IF score = NumberScore(0) THEN <<>> ELSE <<"low">>

\* A request body for POST /analysis. summary identifies the request;
\* hasLists says whether the body carries its three finding lists; hasScore
\* is typeof overallScore === 'number' and nan says that this number is NaN
\* (overallScore is then not read).
Analysis(score, summary) ==
    [hasScore |-> score.kind # "undefined", nan |-> score.kind = "NaN",
     overallScore |-> score.value, summary |-> summary,
     hasLists |-> TRUE,
     securityIssues |-> SecurityIssues(score),
     performanceIssues |-> PerformanceIssues(summary),
     qualityIssues |-> QualityIssues(score)]

\* A request body without finding lists, such as {"overallScore": 75,
\* "summary": "..."}: `request.json() as CodeAnalysisResult` checks nothing
WithoutLists(a) ==
    [a EXCEPT !.hasLists = FALSE, !.securityIssues = <<>>,
              !.performanceIssues = <<>>, !.qualityIssues = <<>>]

\* The session literal with the average preset to the neutral score
NewSessionNeutral(sid, userId, t) ==
    [id |-> sid, userId |-> userId, createdAt |-> t, lastActivity |-> t,
     analyses |-> <<>>, totalAnalyses |-> 0, averageScore |-> DefaultScore]

\* The session literal of getSession
NewSession(sid, userId, t) ==
    [id |-> sid, userId |-> userId, createdAt |-> t, lastActivity |-> t,
     analyses |-> <<>>, totalAnalyses |-> 0, averageScore |-> 0]

\* `!session` after this.sessions.get(sessionId)
SessionMissing(map, sid) == sid \notin DOMAIN map

\* The value ctx.storage.put serialises: the whole map, objects copied
Snapshot(map, hp) == [sid \in DOMAIN map |-> hp[map[sid]]]

\* saveState: the put either stores the whole map or fails and stores nothing
saveState(ok, map, hp, old) == IF ok THEN Snapshot(map, hp) ELSE old

\* getSession without the lookup: every call installs a fresh session object
getSessionAlwaysNew(map, hp, sid, userId, t) ==
    LET ref == Len(hp) + 1
    IN  [sessions |-> [x \in DOMAIN map \cup {sid} |->
                          IF x = sid THEN ref ELSE map[x]],
         heap |-> Append(hp, NewSession(sid, userId, t)),
         ref |-> ref]

\* getSession up to its await: the map, the heap and the reference it holds
getSession(map, hp, sid, userId, t) ==
    IF SessionMissing(map, sid)
    THEN LET ref == Len(hp) + 1
         IN  [sessions |-> [x \in DOMAIN map \cup {sid} |->
                               IF x = sid THEN ref ELSE map[x]],
              heap |-> Append(hp, NewSession(sid, userId, t)),
              ref |-> ref]
    ELSE [sessions |-> map,
          heap |-> [hp EXCEPT ![map[sid]].lastActivity = t],
          ref |-> map[sid]]

\* `!sessionId || !analysis`
RequiredMissing(sid, hasAnalysis) == sid = "" \/ ~hasAnalysis

\* typeof score !== 'number' || score < 0 || score > 100: both comparisons
\* are false of NaN
InvalidScore(a) ==
    \/ ~a.hasScore
    \/ ~a.nan /\ (a.overallScore < 0 \/ a.overallScore > 100)

\* The score validation of saveAnalysis
ValidateScore(a) ==
    IF InvalidScore(a)
    THEN [a EXCEPT !.hasScore = TRUE, !.nan = FALSE,
                   !.overallScore = DefaultScore]
    ELSE a

\* `a.overallScore || 50`: a falsy score (absent, NaN or 0) counts as 50
ScoreOrDefault(a) ==
    IF ~a.hasScore \/ a.nan \/ a.overallScore = 0 THEN DefaultScore
    ELSE a.overallScore

\* session.analyses.reduce((sum, a) => sum + (a.overallScore || 50), 0)
TotalScore(analyses) ==
    SumSeq([i \in 1..Len(analyses) |-> ScoreOrDefault(analyses[i])])

\* Math.round(totalScore / session.totalAnalyses)
AverageScore(analyses, total) == MathRound(TotalScore(analyses), total)

\* Truncate keeping the oldest entries: slice(0, 50) written for slice(-50)
TruncateOldest(analyses) ==
    IF Len(analyses) > HistoryCap THEN SubSeq(analyses, 1, HistoryCap)
    ELSE analyses

\* if (length > 50) analyses = analyses.slice(-50)
Truncate(analyses) ==
    IF Len(analyses) > HistoryCap THEN SliceLast(analyses, HistoryCap)
    ELSE analyses

\* The counter assigned instead of incremented: totalAnalyses = 1
IncTotalAssign(total) == 1

\* session.totalAnalyses += 1
IncTotal(total) == total + 1

\* The synchronous stretch of saveAnalysis between its two awaits
ApplyAnalysis(s, a, t) ==
    LET pushedList == Append(s.analyses, ValidateScore(a))
        total == IncTotal(s.totalAnalyses)
    IN  [s EXCEPT !.analyses = Truncate(pushedList),
                  !.totalAnalyses = total,
                  !.lastActivity = t,
                  !.averageScore = AverageScore(pushedList, total)]

\* Math.max(1, Math.min(limit, 100))
ValidLimit(limit) == Max2(MinLimit, Min2(limit, MaxLimit))

\* The limit argument: a number, NaN (parseInt of a non-numeric query
\* parameter) or undefined
NumberLimit(n) == [kind |-> "number", value |-> n]
NaNLimit == [kind |-> "NaN", value |-> 0]
NoLimit == [kind |-> "undefined", value |-> 0]

\* `limit: number = 10`
LimitOrDefault(limit) ==
    IF limit.kind = "undefined" THEN NumberLimit(DefaultLimit) ELSE limit

\* getAnalysisHistory.  With a NaN limit validLimit is NaN and slice(-NaN)
\* is slice(0), the whole history
getAnalysisHistory(map, hp, sid, limit) ==
    IF sid = "" \/ SessionMissing(map, sid) THEN <<>>
    ELSE IF LimitOrDefault(limit).kind = "NaN" THEN hp[map[sid]].analyses
    ELSE SliceLast(hp[map[sid]].analyses,
                   ValidLimit(LimitOrDefault(limit).value))

\* session.analyses.reduce((sum, a) => sum + a.<list>.length, 0)
IssuesFound(analyses, list) ==
    SumSeq([i \in 1..Len(analyses) |-> Len(analyses[i][list])])

\* `a.securityIssues.length` of an entry without finding lists throws a
\* TypeError inside the reduce of getSessionStats
StatsThrows(map, hp, sid) ==
    /\ ~SessionMissing(map, sid)
    /\ \E i \in 1..Len(hp[map[sid]].analyses) :
          ~hp[map[sid]].analyses[i].hasLists

\* getSessionStats, when it returns
getSessionStats(map, hp, sid) ==
    IF SessionMissing(map, sid)
    THEN [totalAnalyses |-> 0, averageScore |-> 0, lastActivity |-> 0,
          createdAt |-> 0, securityIssuesFound |-> 0,
          performanceIssuesFound |-> 0, qualityIssuesFound |-> 0]
    ELSE LET s == hp[map[sid]]
         IN  [totalAnalyses |-> s.totalAnalyses,
              averageScore |-> s.averageScore,
              lastActivity |-> s.lastActivity,
              createdAt |-> s.createdAt,
              securityIssuesFound |-> IssuesFound(s.analyses, "securityIssues"),
              performanceIssuesFound |->
                  IssuesFound(s.analyses, "performanceIssues"),
              qualityIssuesFound |-> IssuesFound(s.analyses, "qualityIssues")]

\* The age test with >= written for >
ExpiredInclusive(s, t, maxAge) == t - s.lastActivity >= maxAge

\* now - session.lastActivity > maxAgeMs
Expired(s, t, maxAge) == t - s.lastActivity > maxAge

\* The sessions cleanupOldSessions deletes
ExpiredIds(map, hp, t, maxAge) ==
    {sid \in DOMAIN map : Expired(hp[map[sid]], t, maxAge)}

----------------------------------------------------------------------------
(* The snapshots the store may find on activation: none, or one session   *)
(* "s1" as PreloadLen earlier saveAnalysis calls with the scores 1, 2, ...  *)
(* have left it: the history truncated, the average as the last of these   *)
(* calls computed it (over the history it had before it truncated).        *)

PreloadHistory == [i \in 1..PreloadLen |-> Analysis(NumberScore(i), i)]

PreloadSession ==
    [NewSession("s1", NoUser, 0) EXCEPT
        !.analyses = Truncate(PreloadHistory),
        !.totalAnalyses = PreloadLen,
        !.averageScore =
            AverageScore(SliceLast(PreloadHistory, HistoryCap + 1), PreloadLen)]

EmptySnapshot == [sid \in {} |-> NewSession("", NoUser, 0)]

StoredSnapshots == {EmptySnapshot, [sid \in {"s1"} |-> PreloadSession]}

\* What storage.get does in the constructor: it returns the snapshot (or
\* undefined when there is none), or it throws; a load that fails on an
\* empty storage leaves the store as a load that finds nothing
LoadOutcomes(stored) == IF stored = EmptySnapshot THEN {TRUE} ELSE BOOLEAN

\* The constructor without `this.sessions = stored`: the map stays empty
LoadSessionsIgnoringSnapshot(stored, loadOk) == EmptySnapshot

\* constructor: the map becomes the stored snapshot, or stays empty when the
\* load throws
LoadSessions(stored, loadOk) == IF loadOk THEN stored ELSE EmptySnapshot

Idle == [name |-> "none"]
NoRet == [status |-> "none"]

InFlightSave(c, sid) ==
    pc[c] \in {"save_session", "save_put"} /\ op[c].sid = sid

StoreInit ==
    \E stored \in StoredSnapshots :
      \E loadOk \in LoadOutcomes(stored) :
        LET loaded == LoadSessions(stored, loadOk)
            ids == DOMAIN loaded
        IN  /\ storage = stored
            /\ activation = (IF loadOk THEN "loaded" ELSE "failed")
            /\ heap = IF "s1" \in ids THEN <<loaded["s1"]>> ELSE <<>>
            /\ sessions = [sid \in ids |-> 1]
            /\ pushed = [sid \in AllSessionIds |->
                            [preloaded |-> sid \in ids, saved |-> <<>>]]
            /\ okCount = [sid \in AllSessionIds |->
                            IF sid \in ids THEN loaded[sid].totalAnalyses ELSE 0]
            /\ now = 0
            /\ pc = [c \in Callers |-> "idle"]
            /\ op = [c \in Callers |-> Idle]
            /\ loc = [c \in Callers |-> NoRef]
            /\ pending = [c \in Callers |-> TRUE]
            /\ ret = [c \in Callers |-> NoRet]
            /\ issued = 0
            /\ putFailures = 0
            /\ puts = [c \in Callers |-> 0]
            /\ failedSave = [sid \in AllSessionIds |-> FALSE]
            /\ cleaned = [sid \in AllSessionIds |-> FALSE]
            /\ startTotal = [c \in Callers |-> 0]
            /\ overlapped = [c \in Callers |-> {}]

----------------------------------------------------------------------------
(* Store operations.  A call runs in a caller c: Begin* is the stretch up  *)
(* to the first await, the following actions resume it after the await.    *)

\* The outcomes a storage.put may have now
PutOutcomes == IF putFailures < MaxPutFailures THEN BOOLEAN ELSE {TRUE}

\* this.saveState() up to its await: the put is issued with the map as it is
CallSaveState(c, ok, map, hp) ==
    /\ storage' = saveState(ok, map, hp, storage)
    /\ pending' = [pending EXCEPT ![c] = ok]
    /\ putFailures' = IF ok THEN putFailures ELSE putFailures + 1
    /\ puts' = [puts EXCEPT ![c] = @ + 1]

Issue ==
    /\ issued < MaxCalls
    /\ issued' = issued + 1

Finish(c, r) ==
    /\ pc' = [pc EXCEPT ![c] = "done"]
    /\ ret' = [ret EXCEPT ![c] = r]

Begun(c, o, sid) ==
    /\ op' = [op EXCEPT ![c] = o]
    /\ startTotal' = [startTotal EXCEPT
                         ![c] = getSessionStats(sessions, heap, sid).totalAnalyses]
    /\ overlapped' = [overlapped EXCEPT
                         ![c] = {d \in Callers \ {c} : InFlightSave(d, sid)}]

history == <<pushed, okCount, failedSave, cleaned>>

\* Every result ever pushed to the history of sid, in order
AllPushed(sid) ==
    (IF pushed[sid].preloaded THEN PreloadHistory ELSE <<>>)
        \o pushed[sid].saved

\* History: what a call finds under sid when it begins: nothing, or the
\* history, the counter and the average of the session
SessionBefore(map, hp, sid) ==
    IF SessionMissing(map, sid) THEN <<>>
    ELSE <<[analyses |-> hp[map[sid]].analyses,
            totalAnalyses |-> hp[map[sid]].totalAnalyses,
            averageScore |-> hp[map[sid]].averageScore]>>

\* getSession (GET /session) up to `await this.saveState()`
BeginGetSession(c, sid) ==
    /\ pc[c] = "idle"
    /\ Issue
    /\ SessionMissing(sessions, sid) => Len(heap) < MaxRefs
    /\ \E ok \in PutOutcomes :
        LET r == getSession(sessions, heap, sid, NoUser, now)
        IN  /\ sessions' = r.sessions
            /\ heap' = r.heap
            /\ loc' = [loc EXCEPT ![c] = r.ref]
            /\ CallSaveState(c, ok, r.sessions, r.heap)
    /\ pc' = [pc EXCEPT ![c] = "get_put"]
    /\ Begun(c, [name |-> "getSession", sid |-> sid], sid)
    /\ UNCHANGED <<activation, wfVars, agVars, rtVars>>
    /\ UNCHANGED <<now, ret, history>>

\* getSession after the await: return the session or rethrow the put failure
EndGetSession(c) ==
    /\ pc[c] = "get_put"
    /\ Finish(c, IF pending[c]
                 THEN [status |-> "ok", value |-> heap[loc[c]]]
                 ELSE [status |-> "error", value |-> "Failed to save state"])
    /\ UNCHANGED <<activation, wfVars, agVars, rtVars>>
    /\ UNCHANGED <<sessions, heap, storage, now, op, loc, pending, issued,
                   putFailures, puts, history, startTotal, overlapped>>

\* saveAnalysis with a missing session id or body: throws before any await
SaveAnalysisRejected(c, sid, hasAnalysis) ==
    /\ pc[c] = "idle"
    /\ Issue
    /\ RequiredMissing(sid, hasAnalysis)
    /\ Finish(c, [status |-> "error", value |-> "Failed to save analysis"])
    /\ op' = [op EXCEPT ![c] = [name |-> "saveAnalysis", sid |-> sid]]
    /\ UNCHANGED <<activation, wfVars, agVars, rtVars>>
    /\ UNCHANGED <<sessions, heap, storage, now, loc, pending, putFailures, puts,
                   history, startTotal, overlapped>>

\* saveAnalysis up to `await this.getSession(sessionId)`, which itself runs
\* up to its `await this.saveState()`.  isObject is FALSE of a truthy body
\* that is no object (5, true, "x"): `!analysis` lets it pass, and a then
\* stands for the properties read from it, all undefined.
BeginSaveAnalysis(c, sid, a, isObject) ==
    /\ pc[c] = "idle"
    /\ Issue
    /\ ~RequiredMissing(sid, TRUE)
    /\ SessionMissing(sessions, sid) => Len(heap) < MaxRefs
    /\ \E ok \in PutOutcomes :
        LET r == getSession(sessions, heap, sid, NoUser, now)
        IN  /\ sessions' = r.sessions
            /\ heap' = r.heap
            /\ loc' = [loc EXCEPT ![c] = r.ref]
            /\ CallSaveState(c, ok, r.sessions, r.heap)
    /\ pc' = [pc EXCEPT ![c] = "save_session"]
    /\ Begun(c, [name |-> "saveAnalysis", sid |-> sid, analysis |-> a,
                 isObject |-> isObject,
                 before |-> SessionBefore(sessions, heap, sid)], sid)
    /\ UNCHANGED <<activation, wfVars, agVars, rtVars>>
    /\ UNCHANGED <<now, ret, history>>

\* saveAnalysis after getSession returned: validate, push, count, average,
\* truncate, up to the final `await this.saveState()`
ApplySaveAnalysis(c) ==
    /\ pc[c] = "save_session"
    /\ pending[c]
    /\ op[c].isObject \/ ~InvalidScore(op[c].analysis)
    /\ \E ok \in PutOutcomes :
        LET hp == [heap EXCEPT ![loc[c]] = ApplyAnalysis(@, op[c].analysis, now)]
        IN  /\ heap' = hp
            /\ CallSaveState(c, ok, sessions, hp)
    /\ pushed' = [pushed EXCEPT ![op[c].sid].saved =
                     Append(@, ValidateScore(op[c].analysis))]
    /\ pc' = [pc EXCEPT ![c] = "save_put"]
    /\ UNCHANGED <<activation, wfVars, agVars, rtVars>>
    /\ UNCHANGED <<sessions, now, op, loc, ret, issued, okCount, failedSave,
                   cleaned, startTotal, overlapped>>

\* saveAnalysis when the put of getSession failed: catch and rethrow
FailSaveAnalysisSession(c) ==
    /\ pc[c] = "save_session"
    /\ ~pending[c]
    /\ Finish(c, [status |-> "error", value |-> "Failed to save analysis"])
    /\ failedSave' = [failedSave EXCEPT ![op[c].sid] = TRUE]
    /\ UNCHANGED <<activation, wfVars, agVars, rtVars>>
    /\ UNCHANGED <<sessions, heap, storage, now, op, loc, pending, issued,
                   putFailures, puts, pushed, okCount, cleaned, startTotal,
                   overlapped>>

\* saveAnalysis after getSession returned, the body being a primitive: its
\* score is undefined, and `analysis.overallScore = 50` throws a TypeError
\* (class bodies are strict code); catch and rethrow
FailSaveAnalysisBody(c) ==
    /\ pc[c] = "save_session"
    /\ pending[c]
    /\ ~op[c].isObject /\ InvalidScore(op[c].analysis)
    /\ Finish(c, [status |-> "error", value |-> "Failed to save analysis"])
    /\ UNCHANGED <<activation, wfVars, agVars, rtVars>>
    /\ UNCHANGED <<sessions, heap, storage, now, op, loc, pending, issued,
                   putFailures, puts, history, startTotal, overlapped>>

\* The catch block of saveAnalysis without its throw: the call returns
\* whatever the write did
SaveOutcomeSwallowed(putOk) == [status |-> "ok", value |-> "saved"]

\* How saveAnalysis ends after its final await: it returns, or the error of
\* saveState is caught and rethrown
SaveOutcome(putOk) ==
    IF putOk THEN [status |-> "ok", value |-> "saved"]
    ELSE [status |-> "error", value |-> "Failed to save analysis"]

\* The status of the response fetch builds: 200 by default, 500 from its
\* catch block
HttpStatus(r) == IF r.status = "error" THEN 500 ELSE 200

\* saveAnalysis after the final await: return, or catch and rethrow
EndSaveAnalysis(c) ==
    /\ pc[c] = "save_put"
    /\ LET r == SaveOutcome(pending[c])
       IN  /\ Finish(c, r)
           /\ okCount' = [okCount EXCEPT ![op[c].sid] =
                              IF r.status = "ok" THEN @ + 1 ELSE @]
           /\ failedSave' = [failedSave EXCEPT ![op[c].sid] =
                                 @ \/ r.status = "error"]
    /\ UNCHANGED <<activation, wfVars, agVars, rtVars>>
    /\ UNCHANGED <<sessions, heap, storage, now, op, loc, pending, issued,
                   putFailures, puts, pushed, cleaned, startTotal, overlapped>>

\* The lookup done with getSession: it creates a missing session and
\* refreshes lastActivity
LookupCreating(map, hp, sid, t) ==
    [sessions |-> getSession(map, hp, sid, NoUser, t).sessions,
     heap |-> getSession(map, hp, sid, NoUser, t).heap]

\* `this.sessions.get(sessionId)` of getAnalysisHistory and getSessionStats:
\* the map and the session objects after the lookup
Lookup(map, hp, sid, t) == [sessions |-> map, heap |-> hp]

\* getAnalysisHistory: no await inside
GetHistory(c, sid, limit) ==
    /\ pc[c] = "idle"
    /\ Issue
    /\ sessions' = Lookup(sessions, heap, sid, now).sessions
    /\ heap' = Lookup(sessions, heap, sid, now).heap
    /\ Finish(c, [status |-> "ok",
                  value |-> getAnalysisHistory(sessions, heap, sid, limit)])
    /\ op' = [op EXCEPT ![c] = [name |-> "getHistory", sid |-> sid,
                                limit |-> limit]]
    /\ UNCHANGED <<activation, wfVars, agVars, rtVars>>
    /\ UNCHANGED <<storage, now, loc, pending, putFailures, puts,
                   history, startTotal, overlapped>>

\* getSessionStats: no await inside
GetStats(c, sid) ==
    /\ pc[c] = "idle"
    /\ Issue
    /\ sessions' = Lookup(sessions, heap, sid, now).sessions
    /\ heap' = Lookup(sessions, heap, sid, now).heap
    /\ Finish(c, IF StatsThrows(sessions, heap, sid)
                 THEN [status |-> "error", value |-> "TypeError"]
                 ELSE [status |-> "ok",
                       value |-> getSessionStats(sessions, heap, sid)])
    /\ op' = [op EXCEPT ![c] = [name |-> "getStats", sid |-> sid]]
    /\ UNCHANGED <<activation, wfVars, agVars, rtVars>>
    /\ UNCHANGED <<storage, now, loc, pending, putFailures, puts,
                   history, startTotal, overlapped>>

\* cleanupOldSessions up to `await this.saveState()`; it returns at once
\* when nothing was removed
BeginCleanup(c, maxAge) ==
    /\ pc[c] = "idle"
    /\ Issue
    /\ LET gone == ExpiredIds(sessions, heap, now, maxAge)
           map == [sid \in DOMAIN sessions \ gone |-> sessions[sid]]
           removedCount == Cardinality(gone)
       IN  /\ sessions' = map
           /\ cleaned' = [sid \in AllSessionIds |-> cleaned[sid] \/ sid \in gone]
           /\ op' = [op EXCEPT ![c] = [name |-> "cleanup", maxAge |-> maxAge,
                                       removedCount |-> removedCount]]
           /\ IF removedCount > 0
              THEN /\ \E ok \in PutOutcomes : CallSaveState(c, ok, map, heap)
                   /\ pc' = [pc EXCEPT ![c] = "cleanup_put"]
                   /\ UNCHANGED ret
              ELSE /\ Finish(c, [status |-> "ok", value |-> removedCount])
                   /\ UNCHANGED <<storage, pending, putFailures, puts>>
    /\ UNCHANGED <<activation, wfVars, agVars, rtVars>>
    /\ UNCHANGED <<heap, now, loc, pushed, okCount, failedSave, startTotal,
                   overlapped>>

\* cleanupOldSessions after the await
EndCleanup(c) ==
    /\ pc[c] = "cleanup_put"
    /\ Finish(c, IF pending[c]
                 THEN [status |-> "ok", value |-> op[c].removedCount]
                 ELSE [status |-> "error", value |-> "Failed to save state"])
    /\ UNCHANGED <<activation, wfVars, agVars, rtVars>>
    /\ UNCHANGED <<sessions, heap, storage, now, op, loc, pending, issued,
                   putFailures, puts, history, startTotal, overlapped>>

\* The call of caller c is over: its frame is gone
TakeResult(c) ==
    /\ pc' = [pc EXCEPT ![c] = "idle"]
    /\ op' = [op EXCEPT ![c] = Idle]
    /\ ret' = [ret EXCEPT ![c] = NoRet]
    /\ loc' = [loc EXCEPT ![c] = NoRef]
    /\ pending' = [pending EXCEPT ![c] = TRUE]
    /\ startTotal' = [startTotal EXCEPT ![c] = 0]
    /\ overlapped' = [overlapped EXCEPT ![c] = {}]
    /\ puts' = [puts EXCEPT ![c] = 0]
    /\ UNCHANGED <<sessions, heap, storage, now, issued, putFailures, history,
                   activation>>

\* The caller takes the result; it may then issue its next call
Return(c) ==
    /\ pc[c] = "done"
    /\ TakeResult(c)
    /\ UNCHANGED <<wfVars, agVars, rtVars>>

\* Time passes
Tick ==
    /\ now < MaxTime
    /\ now' = now + 1
    /\ UNCHANGED <<activation, wfVars, agVars, rtVars>>
    /\ UNCHANGED <<sessions, heap, storage, pc, op, loc, pending, ret, issued,
                   putFailures, puts, history, startTotal, overlapped>>

LimitInputs ==
    {NoLimit, NaNLimit, NumberLimit(0), NumberLimit(2), NumberLimit(200)}
TypicalLimit == NumberLimit(2)

\* The calls one caller may issue, and their continuations
StoreCall(c, sids, scores, limits, ages) ==
    \/ \E sid \in sids : BeginGetSession(c, sid)
    \/ EndGetSession(c)
    \/ \E sid \in sids, score \in scores :
            /\ sid \in FullInputIds \/ score = NumberScore(TypicalScore)
            /\ BeginSaveAnalysis(c, sid,
                   Analysis(score, 100 + issued + 1), TRUE)
    \/ ApplySaveAnalysis(c)
    \/ FailSaveAnalysisSession(c)
    \/ EndSaveAnalysis(c)
    \/ \E sid \in sids, limit \in limits :
            /\ sid \in FullInputIds \/ limit = TypicalLimit
            /\ GetHistory(c, sid, limit)
    \/ \E sid \in sids : GetStats(c, sid)
    \/ \E maxAge \in ages : BeginCleanup(c, maxAge)
    \/ EndCleanup(c)
    \/ Return(c)

\* One caller at a time (the store serialised by its callers), all inputs
StoreNext ==
    \/ StoreCall("c1", SessionIds, ScoreInputs, LimitInputs, AgeInputs)
    \/ \E sid \in FullInputIds :
          BeginSaveAnalysis("c1", sid,
              WithoutLists(Analysis(NumberScore(TypicalScore),
                                    100 + issued + 1)),
              TRUE)
    \/ \E sid \in FullInputIds :
          BeginSaveAnalysis("c1", sid,
              WithoutLists(Analysis(NoScore, 100 + issued + 1)), FALSE)
    \/ FailSaveAnalysisBody("c1")
    \/ SaveAnalysisRejected("c1", "s1", FALSE)
    \/ SaveAnalysisRejected("c1", "", TRUE)
    \/ Tick

\* Two callers whose calls interleave at the await points, on one session
ConcNext ==
    \/ \E c \in Callers :
          StoreCall(c, {"s1"}, {NumberScore(TypicalScore)}, {TypicalLimit}, {0})
    \/ Tick

----------------------------------------------------------------------------
(* Analysis workflow: AnalysisWorkflow.  The bodies of its steps are        *)
(* placeholders for calls to a database, a Durable Object, a model or a     *)
(* notification service; each such call may throw, and each per-aspect task *)
(* may fulfil with any well-formed result or reject.                        *)

Aspects == <<"security", "performance", "quality">>

\* analysisTypes.includes(a)
Includes(types, a) == \E i \in 1..Len(types) : types[i] = a

\* The result objects of analyzeSecurity, analyzePerformance, analyzeQuality
SecurityResult == [vulnerabilities |-> <<"high">>, issues |-> <<>>, score |-> 75]
PerformanceResult == [vulnerabilities |-> <<>>, issues |-> <<"medium">>, score |-> 80]
QualityResult == [vulnerabilities |-> <<>>, issues |-> <<"low">>, score |-> 85]

\* The values a task may fulfil with: the one its body returns and two others
TaskValues(a) ==
    {CASE a = "security" -> SecurityResult
       [] a = "performance" -> PerformanceResult
       [] OTHER -> QualityResult,
     [vulnerabilities |-> <<>>, issues |-> <<>>, score |-> 0],
     IF a = "security"
     THEN [vulnerabilities |-> <<"low", "critical">>, issues |-> <<>>, score |-> 100]
     ELSE [vulnerabilities |-> <<>>, issues |-> <<"low", "critical">>, score |-> 100]}

NoValue == [vulnerabilities |-> <<>>, issues |-> <<>>, score |-> 0]

Pending(a) == [aspect |-> a, status |-> "pending", value |-> NoValue]

\* The three `if (analysisTypes.includes(..)) tasks.push(..)` of
\* performParallelAnalysis
LaunchTasks(types) ==
    LET requested == SelectSeq(Aspects, LAMBDA a : Includes(types, a))
    IN  [i \in 1..Len(requested) |-> Pending(requested[i])]

\* Promise.all written for Promise.allSettled: the join ends at the first
\* rejection
JoinedFailFast(ts) ==
    \/ \A i \in 1..Len(ts) : ts[i].status = "fulfilled"
    \/ \E i \in 1..Len(ts) : ts[i].status = "rejected"

\* await Promise.allSettled(tasks): resolves when no task is pending
Joined(ts) == \A i \in 1..Len(ts) : ts[i].status # "pending"

ErrorEntry(a) ==
    [error |-> CASE a = "security" -> "Security analysis failed"
                 [] a = "performance" -> "Performance analysis failed"
                 [] OTHER -> "Quality analysis failed"]

\* result.error
HasError(entry) == "error" \in DOMAIN entry

\* status === 'fulfilled' ? value : { error: ... }
Entry(task, a) ==
    IF task.status = "fulfilled" THEN task.value ELSE ErrorEntry(a)

\* The index taken from the place of the aspect in the request
IndexOfRequestOrder(types, a) ==
    CHOOSE i \in 1..Len(types) :
        types[i] = a /\ \A j \in 1..(i - 1) : types[j] # a

\* The index each aspect reads in analysisResults: index++ after every
\* requested aspect that precedes it
IndexOf(types, a) ==
    1 + Cardinality({k \in 1..Len(Aspects) :
                        /\ Includes(types, Aspects[k])
                        /\ \E j \in 1..Len(Aspects) : Aspects[j] = a /\ k < j})

\* Results processed as after Promise.all: one rejection discards every value
ProcessResultsAllOrNothing(types, ts) ==
    [a \in {Aspects[k] : k \in {k \in 1..Len(Aspects) : Includes(types, Aspects[k])}} |->
        IF \E i \in 1..Len(ts) : ts[i].status = "rejected"
        THEN ErrorEntry(a)
        ELSE Entry(ts[IndexOf(types, a)], a)]

\* "Process results" of performParallelAnalysis
ProcessResults(types, ts) ==
    [a \in {Aspects[k] : k \in {k \in 1..Len(Aspects) : Includes(types, Aspects[k])}} |->
        Entry(ts[IndexOf(types, a)], a)]

\* Object.values(results): the entries in insertion order
ResultValues(results) ==
    LET present == SelectSeq(Aspects, LAMBDA a : a \in DOMAIN results)
    IN  [i \in 1..Len(present) |-> results[present[i]]]

RECURSIVE Flatten(_)
Flatten(ss) == IF ss = <<>> THEN <<>> ELSE Head(ss) \o Flatten(Tail(ss))

\* allIssues: vulnerabilities and issues of every entry without error
AllIssues(values) ==
    Flatten([i \in 1..Len(values) |->
                IF HasError(values[i]) THEN <<>>
                ELSE values[i].vulnerabilities \o values[i].issues])

\* `if (result.score)`: the entries whose score is counted
Scored(values) ==
    SelectSeq(values, LAMBDA e : ~HasError(e) /\ e.score # 0)

\* issue.severity === 'high' || issue.severity === 'critical'
Critical(issues) ==
    SelectSeq(issues, LAMBDA sev : sev = "high" \/ sev = "critical")

\* scoreCount > 0 ? Math.round(totalScore / scoreCount) : 0
SummaryScore(values) ==
    LET scored == Scored(values)
        totalScore == SumSeq([i \in 1..Len(scored) |-> scored[i].score])
    IN  IF Len(scored) > 0 THEN MathRound(totalScore, Len(scored)) ELSE 0

\* generateSummary
generateSummary(results) ==
    LET values == ResultValues(results)
    IN  [totalIssues |-> Len(AllIssues(values)),
         criticalIssues |-> Len(Critical(AllIssues(values))),
         averageScore |-> SummaryScore(values)]

NoSummary == [totalIssues |-> 0, criticalIssues |-> 0, averageScore |-> 0]
NoInput == [code |-> "", analysisTypes |-> <<>>]
NoResults == [a \in {} |-> NoValue]

CodeInputs == {"", "function f() {}"}

\* Every list of distinct aspects, in every order
TypeInputs ==
    {<<>>} \cup {<<a>> : a \in {"security", "performance", "quality"}}
    \cup {<<a, b>> : a, b \in {"security", "performance", "quality"}}
    \cup {<<"security", "performance", "quality">>,
          <<"quality", "performance", "security">>,
          <<"performance", "quality", "security">>}

WfInit ==
    /\ wfPc = "idle"
    /\ wfInput = NoInput
    /\ tasks = <<>>
    /\ wfResults = NoResults
    /\ wfSummary = NoSummary
    /\ wfOutcome = "none"
    /\ wfFailed = "none"
    /\ wfSteps = <<>>

\* catch (error) { await this.storeErrorState(...) ...
Catch(step) ==
    /\ wfPc' = "storeErrorState"
    /\ wfFailed' = step
    /\ wfSteps' = Append(wfSteps, "storeErrorState")

\* run up to `await this.initializeAnalysisSession(...)`
StartRun(code, types) ==
    /\ wfPc = "idle"
    /\ agPc = "idle"
    /\ rtPc = "idle" /\ cls.impl = "none"
    /\ wfInput' = [code |-> code, analysisTypes |-> types]
    /\ wfPc' = "initializeAnalysisSession"
    /\ wfSteps' = <<"initializeAnalysisSession">>
    /\ UNCHANGED <<storeVars, agVars, rtVars>>
    /\ UNCHANGED <<tasks, wfResults, wfSummary, wfOutcome, wfFailed>>

\* Step 1 ends; on success performParallelAnalysis launches its tasks and
\* awaits their join
InitDone(ok) ==
    /\ wfPc = "initializeAnalysisSession"
    /\ IF ok
       THEN /\ tasks' = LaunchTasks(wfInput.analysisTypes)
            /\ wfPc' = "performParallelAnalysis"
            /\ wfSteps' = Append(wfSteps, "performParallelAnalysis")
            /\ UNCHANGED wfFailed
       ELSE /\ Catch("initializeAnalysisSession")
            /\ UNCHANGED tasks
    /\ UNCHANGED <<storeVars, agVars, rtVars>>
    /\ UNCHANGED <<wfInput, wfResults, wfSummary, wfOutcome>>

\* One launched task settles: it fulfils with a value or rejects
SettleTask(i, status, value) ==
    /\ wfPc = "performParallelAnalysis"
    /\ i \in 1..Len(tasks)
    /\ tasks[i].status = "pending"
    /\ tasks' = [tasks EXCEPT ![i] = [aspect |-> tasks[i].aspect,
                                      status |-> status, value |-> value]]
    /\ UNCHANGED <<storeVars, agVars, rtVars>>
    /\ UNCHANGED <<wfPc, wfInput, wfResults, wfSummary, wfOutcome, wfFailed,
                   wfSteps>>

\* Step 4 called before Step 3
AfterAnalysisStoreFirst == <<"storeAnalysisResults", "generateSummary">>

\* What run calls once performParallelAnalysis has returned: Step 3,
\* generateSummary, and, after the await on it, Step 4
AfterAnalysis == <<"generateSummary", "storeAnalysisResults">>

\* `await Promise.allSettled(tasks)` resolves: performParallelAnalysis
\* processes the settled results and returns them; run is still suspended at
\* `await this.performParallelAnalysis(input)`
JoinTasks ==
    /\ wfPc = "performParallelAnalysis"
    /\ Joined(tasks)
    /\ wfResults' = ProcessResults(wfInput.analysisTypes, tasks)
    /\ wfPc' = "joined"
    /\ UNCHANGED <<storeVars, agVars, rtVars>>
    /\ UNCHANGED <<wfInput, tasks, wfSummary, wfOutcome, wfFailed, wfSteps>>

\* run resumes with the results and calls Step 3: generateSummary computes
\* the summary without suspending; run suspends at the await on its promise
CallSummary ==
    /\ wfPc = "joined"
    /\ wfPc' = AfterAnalysis[1]
    /\ wfSteps' = Append(wfSteps, AfterAnalysis[1])
    /\ wfSummary' = generateSummary(wfResults)
    /\ UNCHANGED <<storeVars, agVars, rtVars>>
    /\ UNCHANGED <<wfInput, tasks, wfResults, wfOutcome, wfFailed>>

\* run resumes with the summary and calls Step 4, storeAnalysisResults
SummaryDone ==
    /\ wfPc = "generateSummary"
    /\ wfPc' = AfterAnalysis[2]
    /\ wfSteps' = Append(wfSteps, AfterAnalysis[2])
    /\ UNCHANGED <<storeVars, agVars, rtVars>>
    /\ UNCHANGED <<wfInput, tasks, wfResults, wfSummary, wfOutcome, wfFailed>>

\* Step 4 ends; on success Step 5, sendNotifications, is called
StoreDone(ok) ==
    /\ wfPc = "storeAnalysisResults"
    /\ IF ok
       THEN /\ wfPc' = "sendNotifications"
            /\ wfSteps' = Append(wfSteps, "sendNotifications")
            /\ UNCHANGED wfFailed
       ELSE Catch("storeAnalysisResults")
    /\ UNCHANGED <<storeVars, agVars, rtVars>>
    /\ UNCHANGED <<wfInput, tasks, wfResults, wfSummary, wfOutcome>>

\* Step 5 ends; on success run returns its output
NotifyDone(ok) ==
    /\ wfPc = "sendNotifications"
    /\ IF ok
       THEN /\ wfPc' = "returned"
            /\ wfOutcome' = "returned"
            /\ UNCHANGED <<wfFailed, wfSteps>>
       ELSE /\ Catch("sendNotifications")
            /\ UNCHANGED wfOutcome
    /\ UNCHANGED <<storeVars, agVars, rtVars>>
    /\ UNCHANGED <<wfInput, tasks, wfResults, wfSummary>>

\* What leaves the catch block of run: the Error that wraps the message of
\* the original failure ("thrown"), or, when `await this.storeErrorState()`
\* itself rejects, that rejection, the original failure being dropped
Raised(ok) == IF ok THEN "thrown" ELSE "error_state_threw"

\* storeErrorState ends: run throws the wrapped error, or the error of
\* storeErrorState itself
ErrorStateDone(ok) ==
    /\ wfPc = "storeErrorState"
    /\ wfPc' = "thrown"
    /\ wfOutcome' = Raised(ok)
    /\ UNCHANGED <<storeVars, agVars, rtVars>>
    /\ UNCHANGED <<wfInput, tasks, wfResults, wfSummary, wfFailed, wfSteps>>

WfNext ==
    \/ \E code \in CodeInputs, types \in TypeInputs : StartRun(code, types)
    \/ \E ok \in BOOLEAN : InitDone(ok)
    \/ \E i \in 1..3 : SettleTask(i, "rejected", NoValue)
    \/ \E i \in 1..3 :
          /\ i <= Len(tasks)
          /\ \E v \in TaskValues(tasks[i].aspect) : SettleTask(i, "fulfilled", v)
    \/ JoinTasks
    \/ CallSummary
    \/ SummaryDone
    \/ \E ok \in BOOLEAN : StoreDone(ok)
    \/ \E ok \in BOOLEAN : NotifyDone(ok)
    \/ \E ok \in BOOLEAN : ErrorStateDone(ok)

----------------------------------------------------------------------------
(* Chat agents: performCodeAnalysis of SimpleCodeAgent and CodeQualityAgent *)

AgentAspects == {"security", "performance", "quality"}

\* What env.AI.run does for one call
ModelOutcomes == {"response", "no_response", "error"}

\* `!code?.trim()` of SimpleCodeAgent.analyzeWithWorkersAI, which throws
\* before its try block; CodeQualityAgent has no such check
RejectsBlank(kind, blank) == kind = "simple" /\ blank

\* The text analyzeWithWorkersAI resolves to: the model's response, or the
\* text its catch block (its `||` default) substitutes
AnalysisText(outcome) ==
    IF outcome = "response" THEN "response" ELSE "fallback"

\* await Promise.all([...]): resolves when all three have fulfilled
AllFulfilled(calls) == \A a \in AgentAspects : calls[a].status = "fulfilled"

\* await Promise.all([...]): rejects as soon as one has rejected
AnyRejected(calls) == \E a \in AgentAspects : calls[a].status = "rejected"

\* What saveAnalysisResult meets: the POST succeeds, answers not ok, or throws
SaveOutcomes == {"ok", "not_ok", "threw"}

\* The caller of the store that stands for the POST of saveAnalysisResult
AgentCaller == "c1"

\* The mock result performCodeAnalysis of CodeQualityAgent posts to the
\* store: one finding of severity medium in each list, overallScore 75
AgentResult ==
    [hasScore |-> TRUE, nan |-> FALSE, overallScore |-> TypicalScore,
     summary |-> 0, hasLists |-> TRUE,
     securityIssues |-> <<"medium">>,
     performanceIssues |-> <<"medium">>,
     qualityIssues |-> <<"medium">>]

\* Lines of the report template around the three analysis texts
TemplateLines == 12

\* Lines of the text getFallbackAnalysis of SimpleCodeAgent builds
FallbackLines == 21

\* Lines of a response of the model, and of the one-line texts
\* CodeQualityAgent substitutes for a missing response
ResponseLines == 1

\* Lines of one analysis text
TextLines(kind, text) ==
    IF kind = "simple" /\ text = "fallback" THEN FallbackLines
    ELSE ResponseLines

\* combinedAnalysis.split('\n').length
ReportLines(kind, calls) ==
    TemplateLines + TextLines(kind, calls["security"].text)
                  + TextLines(kind, calls["performance"].text)
                  + TextLines(kind, calls["quality"].text)

AgInit ==
    /\ agPc = "idle"
    /\ agKind = "none"
    /\ agCalls = [a \in AgentAspects |-> [status |-> "none", text |-> "none"]]
    /\ agSave = "none"
    /\ agOut = "none"
    /\ agLines = 0

\* performCodeAnalysis up to `await Promise.all([...])`: the three calls of
\* analyzeWithWorkersAI are made
AgentStart(kind, blank) ==
    /\ agPc = "idle"
    /\ wfPc = "idle"
    /\ rtPc = "idle" /\ cls.impl = "none"
    /\ agKind' = kind
    /\ agCalls' = [a \in AgentAspects |->
                     [status |-> IF RejectsBlank(kind, blank) THEN "rejected"
                                 ELSE "pending",
                      text |-> "none"]]
    /\ agPc' = "analysing"
    /\ UNCHANGED <<storeVars, wfVars, rtVars>>
    /\ UNCHANGED <<agSave, agOut, agLines>>

\* One analyzeWithWorkersAI call ends: it never rejects, whatever AI.run did
AgentModelDone(a, outcome) ==
    /\ agPc = "analysing"
    /\ agCalls[a].status = "pending"
    /\ agCalls' = [agCalls EXCEPT ![a] = [status |-> "fulfilled",
                                          text |-> AnalysisText(outcome)]]
    /\ UNCHANGED <<storeVars, wfVars, rtVars>>
    /\ UNCHANGED <<agPc, agKind, agSave, agOut, agLines>>

\* The streaming loop writes its first line and waits on its timer
StreamFirstLine ==
    /\ agPc' = "streaming"
    /\ agOut' = "report"
    /\ agLines' = 1

\* Promise.all resolved: the report is combined; CodeQualityAgent then awaits
\* saveAnalysisResult, SimpleCodeAgent starts to stream the report
AgentCombine ==
    /\ agPc = "analysing"
    /\ AllFulfilled(agCalls)
    /\ IF agKind = "quality"
       THEN /\ agPc' = "saving"
            /\ UNCHANGED <<agOut, agLines>>
       ELSE StreamFirstLine
    /\ UNCHANGED <<storeVars, wfVars, rtVars>>
    /\ UNCHANGED <<agKind, agCalls, agSave>>

\* Promise.all rejected: the catch block writes the error text and calls
\* onFinish
AgentFail ==
    /\ agPc = "analysing"
    /\ AnyRejected(agCalls)
    /\ agPc' = "finished"
    /\ agOut' = "error"
    /\ agLines' = 1
    /\ UNCHANGED <<storeVars, wfVars, rtVars>>
    /\ UNCHANGED <<agKind, agCalls, agSave>>

\* The POST /analysis?sessionId=default-session of saveAnalysisResult, run
\* by the store: saveAnalysis with the mock result, stretch by stretch
AgentStoreStep ==
    /\ agPc = "saving"
    /\ \/ BeginSaveAnalysis(AgentCaller, AgentSessionId, AgentResult, TRUE)
       \/ ApplySaveAnalysis(AgentCaller)
       \/ FailSaveAnalysisSession(AgentCaller)
       \/ EndSaveAnalysis(AgentCaller)

\* What saveAnalysisResult makes of the response: fetch answers 500 when
\* saveAnalysis threw, and `!response.ok` is then an error it catches
SaveResult(r) == IF HttpStatus(r) = 200 THEN "ok" ELSE "not_ok"

\* saveAnalysisResult ends: the store has answered, or the call to the
\* store threw before reaching it; it catches whatever went wrong.
\* performCodeAnalysis is still suspended at the await on it
AgentSaveDone(outcome) ==
    /\ agPc = "saving"
    /\ \/ /\ outcome = "threw"
          /\ pc[AgentCaller] = "idle"
          /\ UNCHANGED storeVars
       \/ /\ pc[AgentCaller] = "done"
          /\ outcome = SaveResult(ret[AgentCaller])
          /\ TakeResult(AgentCaller)
    /\ agSave' = outcome
    /\ agPc' = "saved"
    /\ UNCHANGED <<wfVars, rtVars>>
    /\ UNCHANGED <<agKind, agCalls, agOut, agLines>>

\* performCodeAnalysis of CodeQualityAgent resumes after saveAnalysisResult
\* and starts to stream the report
AgentStreamStart ==
    /\ agPc = "saved"
    /\ StreamFirstLine
    /\ UNCHANGED <<storeVars, wfVars, rtVars>>
    /\ UNCHANGED <<agKind, agCalls, agSave>>

\* The 50 ms timer of the streaming loop fires: the next line is written,
\* or, after the wait that follows the last line, onFinish is called
AgentStreamLine ==
    /\ agPc = "streaming"
    /\ IF agLines < ReportLines(agKind, agCalls)
       THEN /\ agLines' = agLines + 1
            /\ UNCHANGED agPc
       ELSE /\ agPc' = "finished"
            /\ UNCHANGED agLines
    /\ UNCHANGED <<storeVars, wfVars, rtVars>>
    /\ UNCHANGED <<agKind, agCalls, agSave, agOut>>

AgNext ==
    \/ \E kind \in {"simple", "quality"}, blank \in BOOLEAN :
          AgentStart(kind, blank)
    \/ \E a \in AgentAspects, outcome \in ModelOutcomes :
          AgentModelDone(a, outcome)
    \/ AgentCombine
    \/ AgentFail
    \/ AgentStoreStep
    \/ \E outcome \in SaveOutcomes : AgentSaveDone(outcome)
    \/ AgentStreamStart
    \/ AgentStreamLine

----------------------------------------------------------------------------
(* Content classifier: isCodeAnalysisRequest of the worker (index.ts), of   *)
(* the two agents and of lib/utils.  A text is a sequence of tokens written *)
(* without separators: FENCE (three backticks), TICK (one backtick), a      *)
(* plain word, or a word of one of the keyword lists; no keyword arises     *)
(* across two tokens.                                                       *)

Tokens == {"FENCE", "TICK", "x", "audit", "Check", "const", "class"}

RECURSIVE TextsUpTo(_)
TextsUpTo(n) ==
    IF n = 0 THEN {<<>>}
    ELSE LET shorter == TextsUpTo(n - 1)
         IN  shorter \cup {Append(t, k) : t \in shorter, k \in Tokens}

Texts == TextsUpTo(MaxTextLen)

\* The characters of a text, every word standing for one non-backtick
\* character
RECURSIVE Chars(_)
Chars(text) ==
    IF text = <<>> THEN <<>>
    ELSE (CASE Head(text) = "FENCE" -> <<"TICK", "TICK", "TICK">>
            [] Head(text) = "TICK" -> <<"TICK">>
            [] OTHER -> <<"word">>) \o Chars(Tail(text))

FenceAt(cs, i) ==
    i + 2 <= Len(cs) /\ cs[i] = "TICK" /\ cs[i + 1] = "TICK" /\ cs[i + 2] = "TICK"

\* /```[\s\S]*?```/ and /```[\s\S]*```/ : two fences, anything in between
HasCodeBlock(text) ==
    LET cs == Chars(text)
    IN  \E i, j \in 1..Len(cs) : j >= i + 3 /\ FenceAt(cs, i) /\ FenceAt(cs, j)

\* /`[^`]+`/ : two backticks with one or more other characters in between
HasInlineCode(text) ==
    LET cs == Chars(text)
    IN  \E i, j \in 1..Len(cs) :
            /\ j >= i + 2 /\ cs[i] = "TICK" /\ cs[j] = "TICK"
            /\ \A k \in (i + 1)..(j - 1) : cs[k] # "TICK"

\* String.prototype.toLowerCase, and the i flag of a regular expression
LowerCase(tok) == IF tok = "Check" THEN "check" ELSE tok

\* /analyze|review|check|security|performance|quality/i
WorkerKeywords ==
    {"analyze", "review", "check", "security", "performance", "quality"}

\* /function|class|def|const|let|var|import|export/
WorkerStructural ==
    {"function", "class", "def", "const", "let", "var", "import", "export"}

\* codeAnalysisKeywords of the agents and of lib/utils
codeAnalysisKeywords ==
    {"analyze", "review", "check", "audit", "security", "performance",
     "quality", "vulnerability", "optimize", "improve", "bug", "issue"}

Contains(text, words) == \E i \in 1..Len(text) : text[i] \in words

ContainsLowered(text, words) ==
    \E i \in 1..Len(text) : LowerCase(text[i]) \in words

\* isCodeAnalysisRequest of the worker: codePatterns.some(p => p.test(content))
isCodeAnalysisRequest(text) ==
    \/ HasCodeBlock(text)
    \/ HasInlineCode(text)
    \/ ContainsLowered(text, WorkerKeywords)
    \/ Contains(text, WorkerStructural)

\* isCodeAnalysisRequest of SimpleCodeAgent, CodeQualityAgent and lib/utils:
\* hasCode || hasAnalysisKeyword
isCodeAnalysisRequestAgent(text) ==
    \/ HasCodeBlock(text) \/ Contains(text, {"function"}) \/ Contains(text, {"class"})
    \/ ContainsLowered(text, codeAnalysisKeywords)

Classifiers == {"worker", "simple", "quality", "utils"}

Classify(impl, text) ==
    IF impl = "worker" THEN isCodeAnalysisRequest(text)
    ELSE isCodeAnalysisRequestAgent(text)

NoVerdict == [impl |-> "none", text |-> <<>>, verdict |-> FALSE]

----------------------------------------------------------------------------
(* Worker: the fetch handler of index.ts with performCodeAnalysis and      *)
(* performGeneralChat                                                       *)

AgentPath == "/agents/simple-code-agent"
Methods == {"POST", "GET", "OPTIONS"}
Paths == {AgentPath, "/agents/unknown", "/api/analyze", "/health", "/other"}

\* A request: json says whether its body parses; messages whether
\* body.messages is absent, empty, a non-empty array whose last element is
\* an object ("some") or a non-empty array whose last element is null
\* ("null_last"); text is the content of the last message, code whether
\* body.code is non-empty, ai whether env.AI is bound
Request(method, path, json, messages, text, code, ai) ==
    [method |-> method, path |-> path, json |-> json, messages |-> messages,
     text |-> text, code |-> code, ai |-> ai]

ChatRequests ==
    {Request("POST", AgentPath, TRUE, "some", t, FALSE, ai) :
        t \in Texts, ai \in BOOLEAN}

OtherRequests ==
    {Request(m, p, json, ms, <<>>, code, ai) :
        m \in Methods, p \in Paths, json \in BOOLEAN,
        ms \in {"absent", "empty", "null_last"}, code \in BOOLEAN,
        ai \in BOOLEAN}

NoRequest == Request("none", "none", FALSE, "absent", <<>>, FALSE, FALSE)
NoResponse == [status |-> 0, content |-> "none"]

Response(status, content) == [status |-> status, content |-> content]

\* url.pathname.startsWith('/agents/')
IsAgentPath(path) == path \in {AgentPath, "/agents/unknown"}

\* fetch up to its first await: the answer it gives at once, or the await
\* of request.json() it stops at
Dispatch(req) ==
    CASE req.method = "OPTIONS" -> [pc |-> "responded", resp |-> Response(200, "none")]
      [] IsAgentPath(req.path) /\ req.path # AgentPath ->
            [pc |-> "responded", resp |-> Response(404, "Unknown agent type")]
      [] req.path = AgentPath /\ req.method = "POST" ->
            [pc |-> "agent_json", resp |-> NoResponse]
      [] req.path = "/api/analyze" /\ req.method = "POST" ->
            [pc |-> "api_json", resp |-> NoResponse]
      [] req.path = "/health" ->
            [pc |-> "responded", resp |-> Response(200, "healthy")]
      [] OTHER -> [pc |-> "responded", resp |-> Response(404, "Not Found")]

\* isCodeAnalysis ? performCodeAnalysis : performGeneralChat
Route(text) == IF isCodeAnalysisRequest(text) THEN "analysis" ELSE "chat"

\* The text of the catch block of performCodeAnalysis / performGeneralChat
Fallback(route) ==
    IF route = "analysis" THEN "Analysis Service Temporarily Unavailable"
    ELSE "I apologize, but I'm having trouble processing your request"

\* The text after `response.response ||`
DefaultText(route) ==
    IF route = "analysis" THEN "Analysis completed but no response received."
    ELSE "I'm here to help with your coding questions!"

\* What performCodeAnalysis / performGeneralChat return after AI.run
Content(route, outcome) ==
    CASE outcome = "response" -> "response"
      [] outcome = "no_response" -> DefaultText(route)
      [] OTHER -> Fallback(route)

\* The model call issued a second time
IssueModelCallTwice(calls) == calls + 2

\* await env.AI.run(...): one remote call
IssueModelCall(calls) == calls + 1

RtInit ==
    /\ rtPc = "idle"
    /\ rtReq = NoRequest
    /\ rtRoute = "none"
    /\ rtModel = "none"
    /\ rtCalls = 0
    /\ rtResp = NoResponse
    /\ cls = NoVerdict

\* Nothing has been asked of the dispatcher, the agents or the worker yet
Quiescent ==
    /\ wfPc = "idle" /\ agPc = "idle" /\ rtPc = "idle" /\ cls = NoVerdict

\* fetch up to its first await
RtReceive(req) ==
    /\ Quiescent
    /\ rtReq' = req
    /\ rtPc' = Dispatch(req).pc
    /\ rtResp' = Dispatch(req).resp
    /\ UNCHANGED <<rtRoute, rtModel, rtCalls, cls>>
    /\ UNCHANGED <<storeVars, wfVars, agVars>>

\* performCodeAnalysis / performGeneralChat up to `await env.AI.run(...)`;
\* without the binding they throw and their catch block returns the
\* fallback text at once, fetch being suspended at the await on them
StartModel(route) ==
    /\ rtRoute' = route
    /\ IF rtReq.ai
       THEN /\ rtCalls' = IssueModelCall(rtCalls)
            /\ rtPc' = "model"
            /\ UNCHANGED rtModel
       ELSE /\ rtModel' = "absent"
            /\ rtPc' = "returning"
            /\ UNCHANGED rtCalls
    /\ UNCHANGED rtResp

\* The body of a POST to the agent path has been read
RtAgentParsed ==
    /\ rtPc = "agent_json"
    /\ IF ~rtReq.json
       THEN /\ rtPc' = "responded"
            /\ rtResp' = Response(500, "Agent Error")
            /\ UNCHANGED <<rtRoute, rtModel, rtCalls, cls>>
       ELSE IF rtReq.messages \in {"absent", "empty"}
       THEN /\ rtPc' = "responded"
            /\ rtResp' = Response(400, "No messages provided")
            /\ UNCHANGED <<rtRoute, rtModel, rtCalls, cls>>
       ELSE IF rtReq.messages = "null_last"
       THEN \* lastMessage.content throws a TypeError: the catch block
            /\ rtPc' = "responded"
            /\ rtResp' = Response(500, "Agent Error")
            /\ UNCHANGED <<rtRoute, rtModel, rtCalls, cls>>
       ELSE /\ cls' = [impl |-> "worker", text |-> rtReq.text,
                       verdict |-> isCodeAnalysisRequest(rtReq.text)]
            /\ StartModel(Route(rtReq.text))
    /\ UNCHANGED rtReq
    /\ UNCHANGED <<storeVars, wfVars, agVars>>

\* The body of a POST to /api/analyze has been read
RtApiParsed ==
    /\ rtPc = "api_json"
    /\ IF ~rtReq.json
       THEN /\ rtPc' = "responded"
            /\ rtResp' = Response(400, "Invalid JSON")
            /\ UNCHANGED <<rtRoute, rtModel, rtCalls>>
       ELSE IF ~rtReq.code
       THEN /\ rtPc' = "responded"
            /\ rtResp' = Response(400, "Code is required")
            /\ UNCHANGED <<rtRoute, rtModel, rtCalls>>
       ELSE StartModel("analysis")
    /\ UNCHANGED <<rtReq, cls>>
    /\ UNCHANGED <<storeVars, wfVars, agVars>>

\* AI.run has ended: with a response, without one, or by throwing;
\* performCodeAnalysis / performGeneralChat return their text, fetch being
\* suspended at the await on them
RtModelDone(outcome) ==
    /\ rtPc = "model"
    /\ rtModel' = outcome
    /\ rtPc' = "returning"
    /\ UNCHANGED <<rtReq, rtRoute, rtCalls, rtResp, cls>>
    /\ UNCHANGED <<storeVars, wfVars, agVars>>

\* fetch resumes with the text and builds the Response
RtRespond ==
    /\ rtPc = "returning"
    /\ rtPc' = "responded"
    /\ rtResp' = Response(200, Content(rtRoute, rtModel))
    /\ UNCHANGED <<rtReq, rtRoute, rtModel, rtCalls, cls>>
    /\ UNCHANGED <<storeVars, wfVars, agVars>>

\* An agent (onChatMessage) or a caller of lib/utils classifies a message
ClassifyMessage(impl, text) ==
    /\ Quiescent
    /\ cls' = [impl |-> impl, text |-> text, verdict |-> Classify(impl, text)]
    /\ UNCHANGED <<rtPc, rtReq, rtRoute, rtModel, rtCalls, rtResp>>
    /\ UNCHANGED <<storeVars, wfVars, agVars>>

RtNext ==
    \/ /\ Quiescent
       /\ \E req \in ChatRequests \cup OtherRequests : RtReceive(req)
    \/ RtAgentParsed
    \/ RtApiParsed
    \/ \E outcome \in ModelOutcomes : RtModelDone(outcome)
    \/ RtRespond
    \/ /\ Quiescent
       /\ \E impl \in Classifiers \ {"worker"}, text \in Texts :
             ClassifyMessage(impl, text)

----------------------------------------------------------------------------
(* Specifications *)

Init == StoreInit /\ WfInit /\ AgInit /\ RtInit

\* The session store called by one caller at a time
Spec == Init /\ [][StoreNext]_vars

\* The session store called by two callers whose calls interleave
ConcSpec == Init /\ [][ConcNext]_vars

\* One analysis request: a workflow run or a chat request to an agent
DispatchNext ==
    \/ WfNext
    \/ AgNext
    \/ RtNext

DispatchSpec == Init /\ [][DispatchNext]_vars

\* The steps the runtime itself schedules: the continuation of a run after
\* a step, a join, a storage or a notification call has settled, the store
\* answering the POST of an agent, and the timers of the streaming loop and
\* of the aspect tasks of the workflow, which settle by a setTimeout of
\* their own.  The settling of a model call (AgentModelDone, RtModelDone) is
\* not among them: no timeout surrounds `await env.AI.run(...)`, and the
\* remote call need not ever respond.
Continuation ==
    \/ \E ok \in BOOLEAN : InitDone(ok)
    \/ \E i \in 1..3 : SettleTask(i, "rejected", NoValue)
    \/ \E i \in 1..3 :
          /\ i <= Len(tasks)
          /\ \E v \in TaskValues(tasks[i].aspect) : SettleTask(i, "fulfilled", v)
    \/ JoinTasks
    \/ CallSummary
    \/ SummaryDone
    \/ \E ok \in BOOLEAN : StoreDone(ok)
    \/ \E ok \in BOOLEAN : NotifyDone(ok)
    \/ \E ok \in BOOLEAN : ErrorStateDone(ok)
    \/ AgentCombine
    \/ AgentFail
    \/ AgentStoreStep
    \/ \E outcome \in SaveOutcomes : AgentSaveDone(outcome)
    \/ AgentStreamStart
    \/ AgentStreamLine
    \/ RtAgentParsed
    \/ RtApiParsed
    \/ RtRespond

\* One analysis request under fair scheduling of the continuations
LiveSpec == DispatchSpec /\ WF_vars(Continuation)

----------------------------------------------------------------------------
(* Properties of the session store *)

SessionOf(sid) == heap[sessions[sid]]

\* No saveAnalysis call on sid is between its start and its end
Quiet(sid) == \A c \in Callers : ~InFlightSave(c, sid)

\* Neither cleanup nor a failed saveAnalysis has touched sid
Undisturbed(sid) == ~cleaned[sid] /\ ~failedSave[sid]

\* What getSessionStats reports as totalAnalyses of sid
StatsTotal(sid) == getSessionStats(sessions, heap, sid).totalAnalyses

Scores(analyses) == [i \in 1..Len(analyses) |-> analyses[i].overallScore]

\* C1: after n successful saveAnalysis calls on a session (no cleanup, no
\* failed call in between) its history is the last min(n, 50) saved results
\* in save order and totalAnalyses = n; no session object ever holds more
\* than 50 results.
C1_HistoryIsLastFifty ==
    /\ \A r \in 1..Len(heap) : Len(heap[r].analyses) <= HistoryCap
    /\ \A sid \in DOMAIN sessions :
          (Quiet(sid) /\ Undisturbed(sid)) =>
              LET n == okCount[sid]
              IN  /\ Len(AllPushed(sid)) = n
                  /\ SessionOf(sid).totalAnalyses = n
                  /\ SessionOf(sid).analyses =
                         SliceLast(AllPushed(sid), Min2(n, HistoryCap))

\* C1 witness: more than 50 results were saved to a session and the oldest
\* ones have been evicted
C1_Witness ==
    \E sid \in DOMAIN sessions :
        /\ Quiet(sid) /\ Undisturbed(sid)
        /\ okCount[sid] > HistoryCap
        /\ Len(SessionOf(sid).analyses) = HistoryCap
        /\ SessionOf(sid).analyses # SubSeq(AllPushed(sid), 1, HistoryCap)

\* C2: after every saveAnalysis the averageScore of the session is the
\* rounded mean of the stored overallScore of all results ever saved to it.
C2_AverageIsLifetimeMean ==
    \A sid \in DOMAIN sessions :
        (Quiet(sid) /\ Undisturbed(sid) /\ okCount[sid] > 0) =>
            SessionOf(sid).averageScore =
                MathRound(SumSeq(Scores(AllPushed(sid))), Len(AllPushed(sid)))

\* Callers c and d have both returned from a saveAnalysis on the same session;
\* c began while no other save was in flight, d was the next call issued and
\* began while c's call was in flight; the session was not cleaned up.
BothSaved(c, d) ==
    /\ pc[c] = "done" /\ pc[d] = "done"
    /\ op[c].name = "saveAnalysis" /\ op[d].name = "saveAnalysis"
    /\ ret[c].status = "ok" /\ ret[d].status = "ok"
    /\ op[c].sid = op[d].sid
    /\ overlapped[c] = {} /\ overlapped[d] = {c}
    /\ op[d].analysis.summary = op[c].analysis.summary + 1
    /\ ~cleaned[op[c].sid]

InHistory(sid, summary) ==
    /\ sid \in DOMAIN sessions
    /\ \E i \in 1..Len(SessionOf(sid).analyses) :
          SessionOf(sid).analyses[i].summary = summary

\* C3: two saveAnalysis calls on one session that overlap are both reflected
\* once both have returned: totalAnalyses has grown by exactly 2 and both
\* results are in the history.
C3_ConcurrentSavesBothReflected ==
    \A c, d \in Callers :
        (c # d /\ BothSaved(c, d)) =>
            /\ InHistory(op[c].sid, op[c].analysis.summary)
            /\ InHistory(op[d].sid, op[d].analysis.summary)
            /\ StatsTotal(op[c].sid) = startTotal[c] + 2

\* C3 witness: two overlapping calls have both returned, the second of them
\* having started before the first one pushed its result
C3_Witness ==
    \E c, d \in Callers :
        /\ c # d /\ BothSaved(c, d)
        /\ startTotal[d] = startTotal[c]
        /\ StatsTotal(op[c].sid) = startTotal[c] + 2

\* C4 as stated: the totalAnalyses reported for a session id never decreases
\* over any sequence of store operations, cleanup included.
C4_TotalNeverDecreases ==
    [][\A sid \in SessionIds : StatsTotal(sid)' >= StatsTotal(sid)]_vars

\* C4 amended: while a session stays in the map its totalAnalyses never
\* decreases; truncating its history does not lower it.
C4_TotalMonotoneWhileKept ==
    [][\A sid \in SessionIds :
          (sid \in DOMAIN sessions /\ sid \in DOMAIN sessions') =>
              SessionOf(sid)'.totalAnalyses >= SessionOf(sid).totalAnalyses]_vars

\* C4 witness: the counter of a session has passed the length of its
\* truncated history
C4_Witness ==
    \E sid \in DOMAIN sessions :
        /\ SessionOf(sid).totalAnalyses = HistoryCap + 1
        /\ Len(SessionOf(sid).analyses) = HistoryCap

----------------------------------------------------------------------------
(* Properties of the analysis workflow and of the agents *)

StepStarted(step) == \E i \in 1..Len(wfSteps) : wfSteps[i] = step

Requested == {a \in AgentAspects : Includes(wfInput.analysisTypes, a)}

Fulfilled == {i \in 1..Len(tasks) : tasks[i].status = "fulfilled"}
Rejected == {i \in 1..Len(tasks) : tasks[i].status = "rejected"}

FindingCount(value) == Len(value.vulnerabilities) + Len(value.issues)

RECURSIVE SumOver(_, _)
SumOver(S, f) ==
    IF S = {} THEN 0
    ELSE LET x == CHOOSE y \in S : TRUE IN f[x] + SumOver(S \ {x}, f)

\* C5: one task is launched for each requested aspect, and the results are
\* aggregated only after every launched task has settled; a rejection does
\* not stop the siblings from settling.  The agents combine their report only
\* after their three calls have fulfilled, and report an error only when all
\* three have settled.
C5_AggregateAfterAllSettled ==
    /\ StepStarted("performParallelAnalysis") =>
          /\ Len(tasks) = Cardinality(Requested)
          /\ \A a \in Requested : \E i \in 1..Len(tasks) : tasks[i].aspect = a
    /\ StepStarted("generateSummary") =>
          \A i \in 1..Len(tasks) : tasks[i].status # "pending"
    /\ agPc \in {"saving", "saved", "streaming", "finished"} =>
          \A a \in AgentAspects : agCalls[a].status # "pending"

\* C5 witness: the summary was generated after three tasks settled, one of
\* them by rejecting and another one by fulfilling
C5_Witness ==
    /\ StepStarted("generateSummary")
    /\ Len(tasks) = 3
    /\ Rejected # {} /\ Fulfilled # {}

\* C6: when a requested aspect rejects and the others fulfil, the analysis
\* does not raise: the results hold the value of every fulfilled aspect and
\* the error marker of the rejected one, and run goes on to its next step.
C6_PartialFailureAbsorbed ==
    (wfPc # "performParallelAnalysis" /\ Rejected # {}) =>
        /\ DOMAIN wfResults = Requested
        /\ \A i \in 1..Len(tasks) :
              wfResults[tasks[i].aspect] =
                  IF i \in Fulfilled THEN tasks[i].value
                  ELSE ErrorEntry(tasks[i].aspect)
        /\ wfPc # "joined" => StepStarted("generateSummary")
        /\ wfPc \notin {"joined", "generateSummary"} =>
               StepStarted("storeAnalysisResults")
        /\ wfFailed \in {"none", "storeAnalysisResults", "sendNotifications"}
        /\ (wfPc = "returned" => wfOutcome = "returned")

\* C6 witness: run has returned results in which one aspect carries the error
\* marker and another one its findings
C6_Witness ==
    /\ wfPc = "returned"
    /\ \E a, b \in DOMAIN wfResults :
          /\ HasError(wfResults[a])
          /\ ~HasError(wfResults[b]) /\ FindingCount(wfResults[b]) > 0

\* C7: the aggregate score is round(mean of the scores of the aspects that
\* succeeded), a score of 0 included, and 0 when no aspect succeeded; it is
\* within [0, 100].
C7_ScoreIsMeanOfSucceeded ==
    StepStarted("generateSummary") =>
        /\ wfSummary.averageScore =
              IF Fulfilled = {} THEN 0
              ELSE MathRound(SumOver(Fulfilled,
                                     [i \in Fulfilled |-> tasks[i].value.score]),
                             Cardinality(Fulfilled))
        /\ wfSummary.averageScore \in 0..100

\* The sentinel finding list of a failed aspect: a single entry
SentinelFindings == <<"medium">>

\* C8 as stated: totalIssues is the sum of the lengths of the finding lists
\* of all aspects in the result, a failed aspect counting the length of its
\* sentinel finding list.
C8_TotalCountsSentinels ==
    StepStarted("generateSummary") =>
        wfSummary.totalIssues =
            SumOver(Fulfilled, [i \in Fulfilled |-> FindingCount(tasks[i].value)])
            + Len(SentinelFindings) * Cardinality(Rejected)

\* C8, what generateSummary computes: totalIssues is the sum of the lengths
\* of the finding lists of the aspects that succeeded; the { error } entry of
\* a failed aspect has no finding list and contributes nothing.
C8_TotalIssuesOfSucceeded ==
    StepStarted("generateSummary") =>
        wfSummary.totalIssues =
            SumOver(Fulfilled, [i \in Fulfilled |-> FindingCount(tasks[i].value)])

\* C8: a summary over a failed aspect and an aspect with two findings
C8_Witness ==
    /\ StepStarted("generateSummary")
    /\ Rejected # {}
    /\ \E i \in Fulfilled : FindingCount(tasks[i].value) = 2
    /\ wfSummary.totalIssues >= 2

\* The input the dispatcher is specified to refuse
InvalidInput(input) == input.code = "" \/ Requested = {}

\* C9: an analysis request fails if and only if the code is empty or no
\* aspect was requested: a run with such an input throws, and a run with
\* non-empty code and at least one aspect returns whatever its tasks did
\* (unless one of its other steps failed).
C9_FailsIffInvalidInput ==
    wfPc \in {"returned", "thrown"} =>
        /\ InvalidInput(wfInput) => wfOutcome = "thrown"
        /\ (~InvalidInput(wfInput) /\ wfFailed = "none") => wfOutcome = "returned"

\* C10: a failure of the persistence step after a successful analysis does
\* not fail the response: the agent still streams its report and the workflow
\* run still returns its output.
C10_PersistenceFailureSwallowed ==
    /\ (agPc = "finished" /\ agSave \in {"not_ok", "threw"}) => agOut = "report"
    /\ (wfPc \in {"returned", "thrown"} /\ wfFailed = "storeAnalysisResults") =>
          wfOutcome = "returned"

----------------------------------------------------------------------------
(* Properties of the session store: validation, cleanup, reads, frames *)

\* The call of caller c is a saveAnalysis that passed the required check
SavingCall(c) == op[c].name = "saveAnalysis" /\ "analysis" \in DOMAIN op[c]

\* The entries of a history that stem from the request with this summary
EntriesOf(analyses, summary) ==
    SelectSeq(analyses, LAMBDA e : e.summary = summary)

\* The score a request body is to be stored with
StoredScore(a) ==
    IF a.hasScore /\ ~a.nan /\ a.overallScore >= 0 /\ a.overallScore <= 100
    THEN a.overallScore ELSE DefaultScore

\* The stored entry e holds a number within [0,100]
ScoreInRange(e) == e.hasScore /\ ~e.nan /\ e.overallScore \in 0..100

\* C11: saveAnalysis never rejects a result because of its score (it fails
\* only when a storage write failed); a missing, non-numeric or out-of-range
\* overallScore is stored as 50 and one within [0,100] unchanged; every
\* overallScore in every session history, in memory and in the snapshot, is
\* a number within [0,100].
C11_ScoreNormalised ==
    /\ \A r \in 1..Len(heap) : \A i \in 1..Len(heap[r].analyses) :
          ScoreInRange(heap[r].analyses[i])
    /\ \A sid \in DOMAIN storage : \A i \in 1..Len(storage[sid].analyses) :
          ScoreInRange(storage[sid].analyses[i])
    /\ \A c \in Callers :
          (SavingCall(c) /\ pc[c] \in {"save_put", "done"}) =>
              /\ ret[c].status = "error" => ~pending[c]
              /\ (pc[c] = "save_put" \/ ret[c].status = "ok") =>
                    LET es == EntriesOf(heap[loc[c]].analyses,
                                        op[c].analysis.summary)
                    IN  /\ Len(es) = 1
                        /\ ScoreInRange(es[1])
                        /\ es[1].overallScore = StoredScore(op[c].analysis)

\* C11 witness: a saveAnalysis call with overallScore 150 has returned and
\* its result is in the history with the score 50
C11_Witness ==
    \E c \in Callers :
        /\ SavingCall(c) /\ pc[c] = "done" /\ ret[c].status = "ok"
        /\ op[c].analysis.hasScore /\ op[c].analysis.overallScore = 150
        /\ \E i \in 1..Len(heap[loc[c]].analyses) :
              /\ heap[loc[c]].analyses[i].summary = op[c].analysis.summary
              /\ heap[loc[c]].analyses[i].overallScore = DefaultScore

\* Caller c starts a cleanup in this step
CleanupBegins(c) == pc[c] = "idle" /\ op'[c].name = "cleanup"

\* Caller c's cleanup resumes after its storage write in this step
CleanupEnds(c) == pc[c] = "cleanup_put" /\ pc'[c] = "done"

\* The sessions that have been idle for more than maxAge
IdleLongerThan(maxAge) ==
    {sid \in DOMAIN sessions : now - SessionOf(sid).lastActivity > maxAge}

\* C12: cleanup(maxAge) removes exactly the sessions with
\* now - lastActivity > maxAge and leaves every other session unchanged; it
\* returns the number of sessions it removed (0 on an empty store, without
\* failing); it writes the snapshot exactly once when it removed a session,
\* fails only when that write failed, and writes nothing otherwise.
C12_CleanupExact ==
    [][\A c \in Callers :
        /\ CleanupBegins(c) =>
              LET gone == IdleLongerThan(op'[c].maxAge)
              IN  /\ DOMAIN sessions' = DOMAIN sessions \ gone
                  /\ \A sid \in DOMAIN sessions' :
                        /\ sessions'[sid] = sessions[sid]
                        /\ heap'[sessions'[sid]] = heap[sessions[sid]]
                  /\ op'[c].removedCount = Cardinality(gone)
                  /\ IF gone = {}
                     THEN /\ puts'[c] = 0
                          /\ storage' = storage
                          /\ pc'[c] = "done"
                          /\ ret'[c] = [status |-> "ok", value |-> 0]
                     ELSE /\ puts'[c] = 1
                          /\ pc'[c] = "cleanup_put"
                          /\ pending'[c] =>
                                storage' = Snapshot(sessions', heap')
        /\ CleanupEnds(c) =>
              /\ puts'[c] = 1
              /\ sessions' = sessions /\ heap' = heap /\ storage' = storage
              /\ ret'[c] = IF pending[c]
                           THEN [status |-> "ok", value |-> op[c].removedCount]
                           ELSE [status |-> "error",
                                 value |-> "Failed to save state"]
    ]_vars

\* C12 witness: a cleanup has returned 1 after one write, having removed one
\* session and kept another that was not idle long enough
C12_Witness ==
    \E c \in Callers :
        /\ op[c].name = "cleanup" /\ pc[c] = "done"
        /\ ret[c].status = "ok" /\ ret[c].value = 1
        /\ puts[c] = 1
        /\ cleaned["s1"] /\ "s1" \notin DOMAIN sessions
        /\ "s2" \in DOMAIN sessions
        /\ "s2" \in DOMAIN storage /\ "s1" \notin DOMAIN storage

\* The call of caller c is a getHistory that has returned
HistoryReturned(c) == op[c].name = "getHistory" /\ pc[c] = "done"

\* The limits a request may mean: the number clamped into [1,100], 10 when
\* none was given; a NaN limit fixes none of them
ClampedLimits(limit) ==
    CASE limit.kind = "undefined" -> {10}
      [] limit.kind = "NaN" -> 1..100
      [] limit.value < 1 -> {1}
      [] limit.value > 100 -> {100}
      [] OTHER -> {limit.value}

\* The last min(n, Len(s)) entries of s, in order
LastEntries(s, n) ==
    LET k == IF n < Len(s) THEN n ELSE Len(s)
    IN  [i \in 1..k |-> s[Len(s) - k + i]]

\* Caller c calls getHistory in this step (the call has no await)
HistoryCalled(c) == pc[c] = "idle" /\ op'[c].name = "getHistory"

\* C13: getHistory(id, limit) never fails; for a known session it returns the
\* last min(L, history length) entries of the history in append order, L
\* being the limit clamped into [1,100] (10 by default); for a session id
\* that is not in the store it returns the empty list.
C13_HistoryWindow ==
    [][\A c \in Callers :
        HistoryCalled(c) =>
            /\ pc'[c] = "done"
            /\ ret'[c].status = "ok"
            /\ IF op'[c].sid \in DOMAIN sessions
               THEN \E L \in ClampedLimits(op'[c].limit) :
                       ret'[c].value =
                           LastEntries(SessionOf(op'[c].sid).analyses, L)
               ELSE ret'[c].value = <<>>
    ]_vars

\* C13 witness: getHistory with limit 2 has returned the two most recent
\* entries of a longer history
C13_Witness ==
    \E c \in Callers :
        /\ HistoryReturned(c)
        /\ op[c].limit = NumberLimit(2)
        /\ op[c].sid \in DOMAIN sessions
        /\ Len(SessionOf(op[c].sid).analyses) > 2
        /\ Len(ret[c].value) = 2
        /\ ret[c].value[2].summary > ret[c].value[1].summary

\* Caller c calls getStats in this step (the call has no await)
StatsCalled(c) == pc[c] = "idle" /\ op'[c].name = "getStats"

\* The number of findings of one aspect in the entries of a history
Findings(analyses, list) ==
    SumOver(1..Len(analyses), [i \in 1..Len(analyses) |-> Len(analyses[i][list])])

\* C14: getStats(id) returns the all-zero struct for an id that is not in
\* the store; for a known session it returns the session's totalAnalyses and
\* averageScore, and securityIssuesFound, performanceIssuesFound and
\* qualityIssuesFound are the sums of the lengths of the corresponding finding
\* lists over the entries retained in the history.
C14_StatsOverRetained ==
    [][\A c \in Callers :
        StatsCalled(c) =>
            /\ pc'[c] = "done"
            /\ ret'[c].status = "ok"
            /\ IF op'[c].sid \in DOMAIN sessions
               THEN LET s == SessionOf(op'[c].sid)
                        v == ret'[c].value
                    IN  /\ v.totalAnalyses = s.totalAnalyses
                        /\ v.averageScore = s.averageScore
                        /\ v.securityIssuesFound =
                               Findings(s.analyses, "securityIssues")
                        /\ v.performanceIssuesFound =
                               Findings(s.analyses, "performanceIssues")
                        /\ v.qualityIssuesFound =
                               Findings(s.analyses, "qualityIssues")
               ELSE ret'[c].value =
                        [totalAnalyses |-> 0, averageScore |-> 0,
                         lastActivity |-> 0, createdAt |-> 0,
                         securityIssuesFound |-> 0,
                         performanceIssuesFound |-> 0,
                         qualityIssuesFound |-> 0]
    ]_vars

\* C14 witness: getStats has returned for a session that has evicted a
\* result: its totalAnalyses is above 50 and its counts are those of the 50
\* retained entries, below the counts of all the results ever saved
C14_Witness ==
    \E c \in Callers :
        /\ op[c].name = "getStats" /\ pc[c] = "done"
        /\ op[c].sid \in DOMAIN sessions
        /\ ret[c].status = "ok"
        /\ ret[c].value.totalAnalyses > HistoryCap
        /\ Len(SessionOf(op[c].sid).analyses) = HistoryCap
        /\ ret[c].value.securityIssuesFound
              < Findings(AllPushed(op[c].sid), "securityIssues")
        /\ ret[c].value.securityIssuesFound
              # ret[c].value.performanceIssuesFound
        /\ ret[c].value.performanceIssuesFound
              # ret[c].value.qualityIssuesFound

\* Caller c calls getOrCreateSession in this step
SessionCalled(c) == pc[c] = "idle" /\ op'[c].name = "getSession"

\* Caller c's getOrCreateSession resumes after its storage write in this step
SessionReturns(c) == pc[c] = "get_put" /\ pc'[c] = "done"

\* C15: getOrCreateSession(id) changes only lastActivity of an existing
\* session (history, totalAnalyses, averageScore, createdAt and userId stay);
\* for a new id it adds a session with empty history, totalAnalyses = 0 and
\* averageScore = 0; no other session is added, removed or modified, and the
\* session it returns is the one in the store.
C15_GetOrCreateFrame ==
    [][\A c \in Callers :
        /\ SessionCalled(c) =>
              LET sid == op'[c].sid
                  new == heap'[sessions'[sid]]
              IN  /\ DOMAIN sessions' = DOMAIN sessions \cup {sid}
                  /\ \A x \in DOMAIN sessions \ {sid} :
                        /\ sessions'[x] = sessions[x]
                        /\ heap'[sessions'[x]] = heap[sessions[x]]
                  /\ IF sid \in DOMAIN sessions
                     THEN /\ sessions'[sid] = sessions[sid]
                          /\ new = [SessionOf(sid) EXCEPT !.lastActivity = now]
                     ELSE /\ new.id = sid
                          /\ new.analyses = <<>>
                          /\ new.totalAnalyses = 0
                          /\ new.averageScore = 0
                          /\ new.createdAt = now /\ new.lastActivity = now
        /\ SessionReturns(c) =>
              /\ sessions' = sessions /\ heap' = heap
              /\ pending[c] =>
                    /\ ret'[c].status = "ok"
                    /\ op[c].sid \in DOMAIN sessions =>
                          ret'[c].value = SessionOf(op[c].sid)
    ]_vars

\* C15 witness: getOrCreateSession has returned an existing session with its
\* history and counters and a later lastActivity, while another session is
\* in the store
C15_Witness ==
    \E c \in Callers :
        /\ op[c].name = "getSession" /\ pc[c] = "done"
        /\ ret[c].status = "ok"
        /\ ret[c].value.totalAnalyses = PreloadLen
        /\ ret[c].value.analyses # <<>>
        /\ ret[c].value.lastActivity > ret[c].value.createdAt
        /\ DOMAIN sessions = SessionIds
        /\ SessionOf("s2").analyses = <<>>
        /\ SessionOf("s2").averageScore = 0

\* The snapshot holds the result of the request with this summary
Persisted(sid, summary) ==
    /\ sid \in DOMAIN storage
    /\ EntriesOf(storage[sid].analyses, summary) # <<>>

\* C16: when a durable write fails during a saveAnalysis call, the call
\* fails and the store's HTTP handler answers 500; a call that reports
\* success (200) has written its result to the snapshot.
C16_StorageFailureSurfaces ==
    \A c \in Callers :
        (SavingCall(c) /\ pc[c] = "done") =>
            /\ ~pending[c] =>
                  /\ ret[c].status = "error"
                  /\ HttpStatus(ret[c]) = 500
            /\ HttpStatus(ret[c]) = 200 =>
                  /\ pending[c] /\ puts[c] = 2
                  /\ Persisted(op[c].sid, op[c].analysis.summary)

\* C16 witness: the final write of a saveAnalysis call failed after the
\* result was pushed; the call has thrown, the answer is 500 and the result
\* is not in the snapshot
C16_Witness ==
    \E c \in Callers :
        /\ SavingCall(c) /\ pc[c] = "done"
        /\ puts[c] = 2 /\ ~pending[c]
        /\ HttpStatus(ret[c]) = 500
        /\ EntriesOf(heap[loc[c]].analyses, op[c].analysis.summary) # <<>>
        /\ ~Persisted(op[c].sid, op[c].analysis.summary)

----------------------------------------------------------------------------
(* Properties of the classifiers and of the worker *)

\* The keyword set and the structural tokens of the classification rule
RuleKeywords ==
    {"analyze", "review", "check", "audit", "security", "performance",
     "quality", "vulnerability", "optimize", "improve", "bug", "issue"}

RuleStructural ==
    {"function", "class", "def", "const", "let", "var", "import", "export"}

\* The classification rule: a fenced block, an inline code span, a keyword
\* in any case, or a structural token
AnalysisRule(text) ==
    \/ HasCodeBlock(text)
    \/ HasInlineCode(text)
    \/ \E i \in 1..Len(text) : LowerCase(text[i]) \in RuleKeywords
    \/ \E i \in 1..Len(text) : text[i] \in RuleStructural

\* C17: every classifier of the repository (worker, agents, utils) answers
\* true exactly when the text holds a fenced code block, an inline code
\* span, one of the 12 keywords in any case, or a structural token, and
\* false otherwise.
C17_ClassifierRule ==
    cls.impl \in Classifiers => cls.verdict = AnalysisRule(cls.text)

\* A request the agent route reads a last message of: a POST to
\* /agents/simple-code-agent whose body parses and whose messages array is
\* not empty
ChatPost ==
    /\ rtReq.method = "POST" /\ rtReq.path = AgentPath
    /\ rtReq.json /\ rtReq.messages \in {"some", "null_last"}

\* C18: every POST to /agents/simple-code-agent with a non-empty messages
\* array is answered 200 with a text, by the analysis path or the chat path
\* as the classifier said; without the binding, on a failed model call or on
\* an empty payload the text is the fallback message of that path.
C18_ChatAlwaysAnswered ==
    (ChatPost /\ rtPc = "responded") =>
        /\ rtResp.status = 200
        /\ cls.impl = "worker" /\ cls.text = rtReq.text
        /\ rtRoute = (IF cls.verdict THEN "analysis" ELSE "chat")
        /\ rtModel = "response" => rtResp.content = "response"
        /\ rtModel \in {"absent", "error"} => rtResp.content = Fallback(rtRoute)
        /\ rtModel = "no_response" => rtResp.content = DefaultText(rtRoute)

\* C19: a POST to /agents/simple-code-agent whose body is not valid JSON is
\* answered with status 400.
C19_InvalidJsonIs400 ==
    (/\ rtReq.method = "POST" /\ rtReq.path = AgentPath /\ ~rtReq.json
     /\ rtPc = "responded") => rtResp.status = 400

NoDuplicates(seq) ==
    \A i, j \in 1..Len(seq) : i # j => seq[i] # seq[j]

\* C20: nothing is retried: one request makes at most one model call,
\* exactly one when the call was made and failed; in one workflow run every
\* step is started at most once and there is at most one task per aspect,
\* each for a requested aspect.
C20_NoRetry ==
    /\ rtCalls <= 1
    /\ rtModel \in ModelOutcomes => rtCalls = 1
    /\ rtModel = "absent" => rtCalls = 0
    /\ NoDuplicates(wfSteps)
    /\ NoDuplicates([i \in 1..Len(tasks) |-> tasks[i].aspect])
    /\ \A i \in 1..Len(tasks) : Includes(wfInput.analysisTypes, tasks[i].aspect)

\* C20 witness: the model call of an analysis request has failed; the
\* request is answered with the fallback text after that single call
C20_Witness ==
    /\ rtPc = "responded" /\ rtRoute = "analysis"
    /\ rtModel = "error" /\ rtCalls = 1
    /\ rtResp = Response(200, Fallback("analysis"))

----------------------------------------------------------------------------
(* Properties of activation, persistence and failure of the store *)

\* The store has been activated and no call has been issued to it yet
Fresh == issued = 0 /\ \A c \in Callers : pc[c] = "idle"

\* Caller c's call has ended and every write it issued succeeded
EndedWithWritesDone(c) == pc[c] = "done" /\ pending[c]

\* C21: on activation the session map equals the durable snapshot when the
\* load succeeded (it is empty when there is no snapshot) and is empty when
\* the load failed; after a failed load no operation is refused: every call
\* that is well-formed (a saveAnalysis with a session id and an object as
\* its body) and whose writes succeed returns normally.
C21_ActivationLoadsSnapshot ==
    /\ Fresh =>
          /\ activation = "loaded" => Snapshot(sessions, heap) = storage
          /\ activation = "failed" => DOMAIN sessions = {}
    /\ activation = "failed" =>
          \A c \in Callers :
              (/\ EndedWithWritesDone(c)
               /\ op[c].name \in {"getSession", "saveAnalysis", "getHistory",
                                  "getStats", "cleanup"}
               /\ op[c].name = "saveAnalysis" =>
                      "analysis" \in DOMAIN op[c] /\ op[c].isObject
               /\ op[c].name = "getStats" =>
                      ~StatsThrows(sessions, heap, op[c].sid))
                  => ret[c].status = "ok"

\* C21 witness: the load of a snapshot that holds a session failed; the
\* store started empty and has since answered a saveAnalysis call, whose
\* write replaced the snapshot by the new map
C21_Witness ==
    /\ activation = "failed"
    /\ \E c \in Callers :
          /\ op[c].name = "saveAnalysis" /\ pc[c] = "done"
          /\ ret[c].status = "ok"
          /\ storage = Snapshot(sessions, heap)
          /\ Len(SessionOf(op[c].sid).analyses) = 1

\* C22: every result retained in a session history carries its three
\* finding lists as arrays, whatever saveAnalysis calls the store accepted,
\* and so getStats never fails on a session of the store.
C22_FindingListsPresent ==
    /\ \A sid \in DOMAIN sessions :
          \A i \in 1..Len(SessionOf(sid).analyses) :
              SessionOf(sid).analyses[i].hasLists
    /\ \A c \in Callers :
          (op[c].name = "getStats" /\ pc[c] = "done") => ret[c].status = "ok"

----------------------------------------------------------------------------
(* Properties of the order and the end of a workflow run *)

\* The five steps of a run, in the order of the contract
StepOrder ==
    <<"initializeAnalysisSession", "performParallelAnalysis",
      "generateSummary", "storeAnalysisResults", "sendNotifications">>

IsPrefix(p, s) == Len(p) <= Len(s) /\ \A i \in 1..Len(p) : p[i] = s[i]

\* The steps of the normal sequence started so far
NormalSteps == SelectSeq(wfSteps, LAMBDA x : x # "storeErrorState")

Started(step) == \E i \in 1..Len(wfSteps) : wfSteps[i] = step

\* C23: the steps of a run start in the order initialize session, parallel
\* analysis, generate summary, store results, send notifications, each
\* after the one before it has completed (the summary only when every task
\* has settled); a run that returns has executed all five once, in order.
C23_StepsInOrder ==
    /\ IsPrefix(NormalSteps, StepOrder)
    /\ Started("generateSummary") => Joined(tasks)
    /\ (wfPc \in {"initializeAnalysisSession", "performParallelAnalysis",
                  "generateSummary", "storeAnalysisResults",
                  "sendNotifications"})
          => NormalSteps[Len(NormalSteps)] = wfPc
    /\ wfPc = "joined" =>
          NormalSteps[Len(NormalSteps)] = "performParallelAnalysis"
    /\ wfOutcome = "returned" => wfSteps = StepOrder

\* C23 witness: a run has returned after its five steps, one of its three
\* tasks having been rejected
C23_Witness ==
    /\ wfOutcome = "returned"
    /\ wfSteps = StepOrder
    /\ Len(tasks) = 3
    /\ \E i \in 1..Len(tasks) : tasks[i].status = "rejected"

\* How many times a step has been started
Starts(step) == Cardinality({i \in 1..Len(wfSteps) : wfSteps[i] = step})

\* C30: when a step of a run fails, no later step of the normal sequence is
\* started, storeErrorState is called exactly once and the run then ends by
\* raising the error that wraps the original failure; no run both returns
\* an output and records an error state.
C30_FailureEndsRun ==
    /\ wfFailed # "none" =>
          /\ NormalSteps # <<>> /\ NormalSteps[Len(NormalSteps)] = wfFailed
          /\ Starts("storeErrorState") = 1
          /\ wfPc \in {"storeErrorState", "thrown"}
          /\ wfPc = "thrown" => wfOutcome = "thrown"
    /\ wfFailed = "none" => Starts("storeErrorState") = 0
    /\ ~(wfOutcome = "returned" /\ Started("storeErrorState"))

\* The aspects a run was asked for
RequestedAspects ==
    {a \in {"security", "performance", "quality"} :
        \E i \in 1..Len(wfInput.analysisTypes) : wfInput.analysisTypes[i] = a}

\* C28: whatever aspects are requested, in whatever order, the result of the
\* parallel analysis step has an entry for exactly the requested aspects,
\* and the entry of an aspect is the value its own task fulfilled with, or
\* its own failure marker when that task was rejected.
C28_EntriesMatchTasks ==
    Started("generateSummary") =>
        /\ DOMAIN wfResults = RequestedAspects
        /\ \A a \in RequestedAspects :
              \E i \in 1..Len(tasks) :
                  /\ tasks[i].aspect = a
                  /\ wfResults[a] =
                        (IF tasks[i].status = "fulfilled" THEN tasks[i].value
                         ELSE ErrorEntry(a))

\* C28 witness: quality and security were requested, in this order; the
\* security task was rejected and the quality task fulfilled, and each entry
\* is that of its own task
C28_Witness ==
    /\ Started("generateSummary")
    /\ wfInput.analysisTypes = <<"quality", "security">>
    /\ wfResults = [a \in {"security", "quality"} |->
                       IF a = "security" THEN ErrorEntry("security")
                       ELSE QualityResult]

----------------------------------------------------------------------------
(* Termination *)

\* A workflow run, an agent analysis or a worker request has started
RunStarted == wfPc # "idle" \/ agPc # "idle" \/ rtPc # "idle"

\* It has ended: an output was returned or an error raised
RunEnded ==
    \/ wfPc \in {"returned", "thrown"}
    \/ agPc = "finished"
    \/ rtPc = "responded"

\* C24: no analysis operation blocks for ever: under fair scheduling every
\* started run eventually returns an output or raises an error, whatever
\* the model calls of its aspects do, a call that never responds included.
C24_EveryRunEnds == RunStarted ~> RunEnded

----------------------------------------------------------------------------
(* Properties of failed and overlapping store calls *)

\* Caller c's saveAnalysis has failed because a storage write failed
SaveFailedOnWrite(c) == SavingCall(c) /\ pc[c] = "done" /\ ~pending[c]

\* C27: when saveAnalysis fails because a durable write failed, the state in
\* memory is as it was before the call: no session has been created, and
\* history, totalAnalyses and averageScore of the session are unchanged.
C27_FailedSaveLeavesMemory ==
    \A c \in Callers :
        SaveFailedOnWrite(c) =>
            IF op[c].before = <<>>
            THEN op[c].sid \notin DOMAIN sessions
            ELSE /\ op[c].sid \in DOMAIN sessions
                 /\ SessionOf(op[c].sid).analyses = op[c].before[1].analyses
                 /\ SessionOf(op[c].sid).totalAnalyses
                        = op[c].before[1].totalAnalyses
                 /\ SessionOf(op[c].sid).averageScore
                        = op[c].before[1].averageScore

\* Caller c's saveAnalysis returns normally in this step
SaveReturns(c) ==
    /\ SavingCall(c) /\ pc[c] = "save_put"
    /\ pc'[c] = "done" /\ ret'[c].status = "ok"

\* C26: when a saveAnalysis call returns normally, its result is in the
\* history of its session in the session map (a getHistory that follows
\* returns it) and in the durable snapshot, also when a cleanup ran between
\* the await points of the call.
C26_SaveSurvivesCleanup ==
    [][\A c \in Callers :
        SaveReturns(c) =>
            /\ op[c].sid \in DOMAIN sessions'
            /\ EntriesOf(heap'[sessions'[op[c].sid]].analyses,
                         op[c].analysis.summary) # <<>>
            /\ EntriesOf(getAnalysisHistory(sessions', heap', op[c].sid,
                                            NumberLimit(MaxLimit)),
                         op[c].analysis.summary) # <<>>
            /\ op[c].sid \in DOMAIN storage'
            /\ EntriesOf(storage'[op[c].sid].analyses,
                         op[c].analysis.summary) # <<>>
    ]_vars

\* Caller c's getOrCreateSession, saveAnalysis or cleanup resumes after its
\* last write in this step and returns normally
MutationReturns(c) ==
    /\ pc[c] \in {"get_put", "save_put", "cleanup_put"}
    /\ pc'[c] = "done" /\ ret'[c].status = "ok"

\* No call of another caller is between its start and its end
NoOtherInProgress(c) ==
    \A d \in Callers \ {c} : pc[d] \in {"idle", "done"}

\* C25: when getOrCreateSession, saveAnalysis or a cleanup that removed a
\* session completes normally and no other operation is in progress, the
\* durable snapshot is the whole session map as it is in memory.
C25_SnapshotIsWholeMap ==
    [][\A c \in Callers :
        (MutationReturns(c) /\ NoOtherInProgress(c)) =>
            storage' = Snapshot(sessions', heap')
    ]_vars

\* Caller c calls getHistory or getStats in this step
ReadCalled(c) ==
    pc[c] = "idle" /\ op'[c].name \in {"getHistory", "getStats"}

\* C29: getHistory and getStats are pure reads: for a known or an unknown
\* id they leave the session map, every session (its lastActivity included)
\* and the durable snapshot as they are, create no session and issue no
\* storage write.
C29_ReadsArePure ==
    [][\A c \in Callers :
        ReadCalled(c) =>
            /\ pc'[c] = "done"
            /\ sessions' = sessions
            /\ heap' = heap
            /\ storage' = storage
            /\ puts' = puts /\ putFailures' = putFailures
    ]_vars

\* C29 witness: getStats has returned for a session that was last active
\* before now: it has written nothing, the session keeps its lastActivity
\* and the snapshot is still the whole map
C29_Witness ==
    \E c \in Callers :
        /\ op[c].name = "getStats" /\ pc[c] = "done"
        /\ ret[c].status = "ok" /\ puts[c] = 0
        /\ op[c].sid \in DOMAIN sessions
        /\ SessionOf(op[c].sid).lastActivity < now
        /\ ret[c].value.lastActivity < now
        /\ storage = Snapshot(sessions, heap)
====
